---- MODULE Spec2Model ----
(***************************************************************************)
(* Model of the Tektronix RSA306B acquisition control layer:               *)
(*   src/scos_tekrsa/hardware/rsa_api.py       (typed command layer,       *)
(*                                              IQSTREAM_Tempfile,         *)
(*                                              IQBLK_Configure/Acquire)   *)
(*   src/scos_tekrsa/hardware/rsa306b_radio.py (RSA306BRadio)              *)
(*                                                                         *)
(* Numbers.  Every numeric Python value is held as an integer number of    *)
(* eighths (U), so that the sample rates and bandwidths of the device,     *)
(* which are multiples of 1/8, are exact.  A Python value is a record      *)
(* [t |-> type, v |-> 8 * value].                                          *)
(*                                                                         *)
(* Control.  The program is single threaded.  op is the operation the      *)
(* client has called, pc the statement about to be executed.  Every        *)
(* native call may return a non-zero status (ok = FALSE), which err_check  *)
(* turns into RSA_Error.                                                   *)
(***************************************************************************)
EXTENDS Integers, Sequences, FiniteSets, TLC

VARIABLES
    dev,        \* the device behind the native library
    fs,         \* paths that exist in temporary storage
    calls,      \* native calls issued by the running (or last) helper
    op,         \* operation in progress: "idle", "acquire", "tempfile", ...
    pc,         \* statement about to be executed
    acq,        \* locals of RSA306BRadio.acquire_time_domain_samples
    tf,         \* locals of IQSTREAM_Tempfile
    blk,        \* locals of IQBLK_Configure / IQBLK_Acquire
    outcome,    \* how the last operation ended
    tmpMade,    \* temporary directories created by the operation in progress
    arg,        \* input of a pure function under check
    res,        \* its result
    radio,      \* fields of the RSA306BRadio object
    al,         \* locals of RSA306BRadio.connect / align
    cmd,        \* the last command of the command layer called directly
    lastSet     \* the last Set command among them

vars == <<dev, fs, tmpMade, calls, op, pc, acq, tf, blk, outcome, arg, res,
          radio, al, cmd, lastSet>>

-----------------------------------------------------------------------------
(* Bounds of the model *)

MaxN == 15            \* largest num_samples requested
MaxS == 1             \* largest num_samples_skip requested
MaxRetries == 2       \* largest explicit retries argument (besides the default)
MaxRaw == 17          \* largest number of IQ pairs a capture file holds
MaxPolls == 2         \* write-status / data-ready polls before the device completes
MinCenterFreq == 1    \* device-reported minimum centre frequency (abstract Hz)
MaxCenterFreq == 2    \* device-reported maximum centre frequency (abstract Hz)
MaxIQBandwidth == 2   \* device-reported maximum IQBLK bandwidth (abstract Hz)
RecLenPerBW == 3      \* device-reported maximum record length per unit of bandwidth
MaxAlignRetries == 1  \* largest explicit retries argument of align (besides the default)
UncataloguedCode == 1 \* a status code that ReturnStatus does not list
MaxBuf == 6           \* longest flat buffer deinterleaved as a pure function
MaxDevices == 2       \* most devices attached to the host
MaxCal == 1           \* largest value a calibration lookup supplies
HealthSamples == 13   \* samples the health check asks for

(* Program constants *)

U == 8                      \* fixed-point scale: values are held in eighths
RefLevelMin == -130
RefLevelMax == 30
MinRecordLength == 2
MinIQBandwidth == 1
DefaultRetries == 5
SuffixCtl == -2
MinSuffixCtl == -2
MinFileLength == 0
Inf == 2147483647           \* float('inf'): above every value of the model
TrigPosMin == 1
TrigPosMax == 99
AudioModeMin == 0
AudioModeMax == 5
VolumeMin == 0
VolumeMax == 1
MaxFreqOffset == 20000000
SingleStep == 2             \* grid of c_float in eighths: coarser than the grid of float

-----------------------------------------------------------------------------
(* Python values *)

PyInt(n)   == [t |-> "int",   v |-> U * n, s |-> ""]
PyFloat(e) == [t |-> "float", v |-> e, s |-> ""]       \* e already in eighths
PyStr(str) == [t |-> "str",   v |-> 0, s |-> str]
PyBool(b)  == [t |-> "bool",  v |-> IF b THEN U ELSE 0, s |-> ""]

Ok(val)          == [exc |-> "none", val |-> val]
Raised(exc, msg) == [exc |-> exc, msg |-> msg]

\* check_num: int or float, nothing else (bool is not int for type(x) is int)
check_num(input) ==
    IF input.t = "int" \/ input.t = "float"
    THEN Ok(input)
    ELSE Raised("TypeError", "Input must be a number (float or int).")

\* variant: only values of type int pass
check_intOnly(input) ==
    IF input.t = "int" THEN Ok(input)
    ELSE Raised("TypeError", "Input must be an integer.")

\* check_int: int, or a whole-valued float converted to int
check_int(input) ==
    IF input.t = "int" THEN Ok(input)
    ELSE IF input.t = "float" /\ input.v % U = 0 THEN Ok([input EXCEPT !.t = "int"])
    ELSE Raised("TypeError", "Input must be an integer.")

check_string(input) ==
    IF input.t = "str" THEN Ok(input)
    ELSE Raised("TypeError", "Input must be a string.")

\* variant: the bounds themselves are rejected
check_rangeExclusive(input, min8, max8) ==
    IF min8 < input.v /\ input.v < max8
    THEN Ok(input)
    ELSE Raised("ValueError", "Input must be in range min to max, inclusive.")

\* check_range, inclusive; min8 and max8 in eighths
check_range(input, min8, max8) ==
    IF min8 <= input.v /\ input.v <= max8
    THEN Ok(input)
    ELSE Raised("ValueError", "Input must be in range min to max, inclusive.")

-----------------------------------------------------------------------------
(* Status codes of the native library *)

\* class ReturnStatus(Enum), one row per member: name, numeric code, and
\* whether the code is written with a trailing comma, which makes the value
\* of the member the tuple (code,) and not the integer
ReturnStatus ==
    << <<"noError", 0, FALSE>>,
       <<"errorNotConnected", 101, FALSE>>,
       <<"errorIncompatibleFirmware", 102, FALSE>>,
       <<"errorBootLoaderNotRunning", 103, FALSE>>,
       <<"errorTooManyBootLoadersConnected", 104, FALSE>>,
       <<"errorRebootFailure", 105, FALSE>>,
       <<"errorPOSTFailureFPGALoad", 201, FALSE>>,
       <<"errorPOSTFailureHiPower", 202, FALSE>>,
       <<"errorPOSTFailureI2C", 203, FALSE>>,
       <<"errorPOSTFailureGPIF", 204, FALSE>>,
       <<"errorPOSTFailureUsbSpeed", 205, FALSE>>,
       <<"errorPOSTDiagFailure", 206, FALSE>>,
       <<"errorBufferAllocFailed", 301, FALSE>>,
       <<"errorParameter", 302, FALSE>>,
       <<"errorDataNotReady", 304, FALSE>>,
       <<"errorParameterTraceLength", 1101, FALSE>>,
       <<"errorMeasurementNotEnabled", 1102, FALSE>>,
       <<"errorSpanIsLessThanRBW", 1103, FALSE>>,
       <<"errorFrequencyOutOfRange", 1104, FALSE>>,
       <<"errorStreamADCToDiskFileOpen", 1201, FALSE>>,
       <<"errorStreamADCToDiskAlreadyStreaming", 1202, FALSE>>,
       <<"errorStreamADCToDiskBadPath", 1203, FALSE>>,
       <<"errorStreamADCToDiskThreadFailure", 1204, FALSE>>,
       <<"errorStreamedFileInvalidHeader", 1205, FALSE>>,
       <<"errorStreamedFileOpenFailure", 1206, FALSE>>,
       <<"errorStreamingOperationNotSupported", 1207, FALSE>>,
       <<"errorStreamingFastForwardTimeInvalid", 1208, FALSE>>,
       <<"errorStreamingInvalidParameters", 1209, FALSE>>,
       <<"errorStreamingEOF", 1210, FALSE>>,
       <<"errorIQStreamInvalidFileDataType", 1301, FALSE>>,
       <<"errorIQStreamFileOpenFailed", 1302, FALSE>>,
       <<"errorIQStreamBandwidthOutOfRange", 1303, FALSE>>,
       <<"errorTimeout", 3001, FALSE>>,
       <<"errorTransfer", 3002, FALSE>>,
       <<"errorFileOpen", 3003, FALSE>>,
       <<"errorFailed", 3004, FALSE>>,
       <<"errorCRC", 3005, FALSE>>,
       <<"errorChangeToFlashMode", 3006, FALSE>>,
       <<"errorChangeToRunMode", 3007, FALSE>>,
       <<"errorDSPLError", 3008, FALSE>>,
       <<"errorLOLockFailure", 3009, FALSE>>,
       <<"errorExternalReferenceNotEnabled", 3010, FALSE>>,
       <<"errorLogFailure", 3011, FALSE>>,
       <<"errorRegisterIO", 3012, FALSE>>,
       <<"errorFileRead", 3013, FALSE>>,
       <<"errorDisconnectedDeviceRemoved", 3101, FALSE>>,
       <<"errorDisconnectedDeviceNodeChangedAndRemoved", 3102, FALSE>>,
       <<"errorDisconnectedTimeoutWaitingForADcData", 3103, FALSE>>,
       <<"errorDisconnectedIOBeginTransfer", 3104, FALSE>>,
       <<"errorOperationNotSupportedInSimMode", 3015, FALSE>>,
       <<"errorFPGAConfigureFailure", 3201, FALSE>>,
       <<"errorCalCWNormFailure", 3202, FALSE>>,
       <<"errorSystemAppDataDirectory", 3203, FALSE>>,
       <<"errorFileCreateMRU", 3204, FALSE>>,
       <<"errorDeleteUnsuitableCachePath", 3205, FALSE>>,
       <<"errorUnableToSetFilePermissions", 3206, FALSE>>,
       <<"errorCreateCachePath", 3207, FALSE>>,
       <<"errorCreateCachePathBoost", 3208, FALSE>>,
       <<"errorCreateCachePathStd", 3209, FALSE>>,
       <<"errorCreateCachePathGen", 3210, FALSE>>,
       <<"errorBufferLengthTooSmall", 3211, FALSE>>,
       <<"errorRemoveCachePath", 3212, FALSE>>,
       <<"errorGetCachingDirectoryBoost", 3213, FALSE>>,
       <<"errorGetCachingDirectoryStd", 3214, FALSE>>,
       <<"errorGetCachingDirectoryGen", 3215, FALSE>>,
       <<"errorInconsistentFileSystem", 3216, FALSE>>,
       <<"errorWriteCalConfigHeader", 3301, FALSE>>,
       <<"errorWriteCalConfigData", 3302, FALSE>>,
       <<"errorReadCalConfigHeader", 3303, FALSE>>,
       <<"errorReadCalConfigData", 3304, FALSE>>,
       <<"errorEraseCalConfig", 3305, FALSE>>,
       <<"errorCalConfigFileSize", 3306, FALSE>>,
       <<"errorInvalidCalibConstantFileFormat", 3307, FALSE>>,
       <<"errorMismatchCalibConstantsSize", 3308, FALSE>>,
       <<"errorCalConfigInvalid", 3309, FALSE>>,
       <<"errorFlashFileSystemUnexpectedSize", 3401, TRUE>>,
       <<"errorFlashFileSystemNotMounted", 3402, FALSE>>,
       <<"errorFlashFileSystemOutOfRange", 3403, FALSE>>,
       <<"errorFlashFileSystemIndexNotFound", 3404, FALSE>>,
       <<"errorFlashFileSystemReadErrorCRC", 3405, FALSE>>,
       <<"errorFlashFileSystemReadFileMissing", 3406, FALSE>>,
       <<"errorFlashFileSystemCreateCacheIndex", 3407, FALSE>>,
       <<"errorFlashFileSystemCreateCachedDataFile", 3408, FALSE>>,
       <<"errorFlashFileSystemUnsupportedFileSize", 3409, FALSE>>,
       <<"errorFlashFileSystemInsufficentSpace", 3410, FALSE>>,
       <<"errorFlashFileSystemInconsistentState", 3411, FALSE>>,
       <<"errorFlashFileSystemTooManyFiles", 3412, FALSE>>,
       <<"errorFlashFileSystemImportFileNotFound", 3413, FALSE>>,
       <<"errorFlashFileSystemImportFileReadError", 3414, FALSE>>,
       <<"errorFlashFileSystemImportFileError", 3415, FALSE>>,
       <<"errorFlashFileSystemFileNotFoundError", 3416, FALSE>>,
       <<"errorFlashFileSystemReadBufferTooSmall", 3417, FALSE>>,
       <<"errorFlashWriteFailure", 3418, FALSE>>,
       <<"errorFlashReadFailure", 3419, FALSE>>,
       <<"errorFlashFileSystemBadArgument", 3420, FALSE>>,
       <<"errorFlashFileSystemCreateFile", 3421, FALSE>>,
       <<"errorMonitoringNotSupported", 3501, TRUE>>,
       <<"errorAuxDataNotAvailable", 3502, FALSE>>,
       <<"errorBatteryCommFailure", 3601, FALSE>>,
       <<"errorBatteryChargerCommFailure", 3602, FALSE>>,
       <<"errorBatteryNotPresent", 3603, FALSE>>,
       <<"errorESTOutputPathFile", 3701, FALSE>>,
       <<"errorESTPathNotDirectory", 3702, FALSE>>,
       <<"errorESTPathDoesntExist", 3703, FALSE>>,
       <<"errorESTUnableToOpenLog", 3704, FALSE>>,
       <<"errorESTUnableToOpenLimits", 3705, FALSE>>,
       <<"errorRevisionDataNotFound", 3801, FALSE>>,
       <<"error112MHzAlignmentSignalLevelTooLow", 3901, FALSE>>,
       <<"error10MHzAlignmentSignalLevelTooLow", 3902, FALSE>>,
       <<"errorInvalidCalConstant", 3903, FALSE>>,
       <<"errorNormalizationCacheInvalid", 3904, FALSE>>,
       <<"errorInvalidAlignmentCache", 3905, FALSE>>,
       <<"errorADCOverrange", 9000, FALSE>>,
       <<"errorOscUnlock", 9001, FALSE>>,
       <<"errorNotSupported", 9901, FALSE>>,
       <<"errorPlaceholder", 9999, FALSE>>,
       <<"notImplemented", -1, FALSE>> >>

\* codes a native call can return: the catalogue and one code outside it
StatusCodes == {ReturnStatus[i][2] : i \in 1..Len(ReturnStatus)} \cup {UncataloguedCode}

\* ReturnStatus(rs): the first member whose value equals the integer rs
MemberOf(rs) ==
    LET ms == {i \in 1..Len(ReturnStatus) : ReturnStatus[i][2] = rs /\ ~ReturnStatus[i][3]}
    IN  IF ms = {} THEN 0 ELSE CHOOSE i \in ms : \A j \in ms : i <= j

\* err_check(rs)
err_check(rs) ==
    LET m == MemberOf(rs) IN
    IF m = 0 THEN Raised("ValueError", "rs is not a valid ReturnStatus")
    ELSE IF ReturnStatus[m][1] # "noError" THEN Raised("RSA_Error", ReturnStatus[m][1])
    ELSE Ok(0)

-----------------------------------------------------------------------------
(* IQ streaming tables, in eighths of Hz and of samples per second *)

\* RSA306BRadio.ALLOWED_SR, as written in the source
ALLOWED_SR ==
    << 448000000, 224000000, 112000000, 56000000, 28000000, 6000000, 7000000,
       3500000, 1750000, 875000, 437500, 218750, 109375 >>

\* RSA306BRadio.ALLOWED_BW
ALLOWED_BW ==
    << 320000000, 160000000, 80000000, 40000000, 20000000, 10000000, 5000000,
       2500000, 1250000, 625000, 312500, 156250, 78125 >>

\* Output sample rate of the device for each bandwidth step
DeviceSampleRates ==
    << 448000000, 224000000, 112000000, 56000000, 28000000, 14000000, 7000000,
       3500000, 1750000, 875000, 437500, 218750, 109375 >>

\* the device maps a requested bandwidth to the narrowest step that holds it
DeviceSampleRate(bw8) ==
    LET fit == {i \in 1..Len(ALLOWED_BW) : bw8 <= ALLOWED_BW[i]}
        idx == CHOOSE i \in fit : \A j \in fit : j <= i
    IN  DeviceSampleRates[idx]

\* sr_bw_map[sample_rate]: a dict lookup, KeyError when the key is absent.
\* A later duplicate key would overwrite an earlier one.
sr_bw_map(sr8) ==
    LET keys == {i \in 1..Len(ALLOWED_SR) : ALLOWED_SR[i] = sr8}
    IN  IF keys = {} THEN Raised("KeyError", "sample_rate")
        ELSE Ok(ALLOWED_BW[CHOOSE i \in keys : \A j \in keys : j <= i])

MinAcqBandwidth == ALLOWED_BW[Len(ALLOWED_BW)]
MaxAcqBandwidth == ALLOWED_BW[1]

-----------------------------------------------------------------------------
(* The device behind the native library *)

DevInit(running, bw8) ==
    [ running   |-> running,        \* global run state
      streaming |-> FALSE,          \* IQ stream processing active
      cf        |-> U * MinCenterFreq,
      ref       |-> 0,
      bw        |-> bw8,            \* IQSTREAM acquisition bandwidth
      iqbw      |-> U * MinIQBandwidth,   \* IQBLK bandwidth
      recLen    |-> U * MinRecordLength,
      outCfg    |-> <<0, 0>>,       \* IQSTREAM destination and datatype ordinals
      fname     |-> 0,              \* temp directory of the filename base, 0 = unset
      suffix    |-> 0,
      fileLen   |-> 0,
      cleared   |-> FALSE,          \* sticky status bits cleared since the last run
      acquiring |-> FALSE,          \* IQ block acquisition initiated
      connected |-> TRUE,           \* DEVICE_Connect succeeded
      ifLevel   |-> 0,              \* IF power trigger level
      trigPos   |-> U * 50,         \* trigger position percent
      audioMode |-> -U,             \* audio demodulation mode, not set yet
      audioVolume |-> 0,
      audioOffset |-> 0,
      mute      |-> 0,
      extRefEn  |-> 0,
      spectrumEn |-> 0,
      bufSize   |-> 0,
      trigMode  |-> 0,              \* ordinals of the enumeration tuples
      trigSource |-> 0,
      trigTransition |-> 0,
      freqRef   |-> 0,
      attached  |-> 1 ]             \* devices a search finds

\* the settings of a connected device after CONFIG_Preset
Preset == DevInit(FALSE, ALLOWED_BW[13])

DeviceMaxRecordLength(d) == RecLenPerBW * d.iqbw

\* result of a command-layer call: exception (or "none"), device, call log
Done(d, log)            == [exc |-> "none", msg |-> "", dev |-> d, calls |-> log]
Fail(exc, msg, d, log)  == [exc |-> exc, msg |-> msg, dev |-> d, calls |-> log]

\* a command that only issues one native call and translates its status
Native(d, log, name, ok, d2) ==
    IF ok THEN Done(d2, Append(log, name))
    ELSE Fail("RSA_Error", "status", d, Append(log, name))

\* variant: run toggles the run state
DEVICE_RunToggles(d, log, ok) ==
    Native(d, log, "DEVICE_Run", ok, [d EXCEPT !.running = ~@])
DEVICE_Run(d, log, ok)  == Native(d, log, "DEVICE_Run", ok, [d EXCEPT !.running = TRUE])
DEVICE_Stop(d, log, ok) == Native(d, log, "DEVICE_Stop", ok, [d EXCEPT !.running = FALSE])
IQSTREAM_Start(d, log, ok) ==
    Native(d, log, "IQSTREAM_Start", ok, [d EXCEPT !.streaming = TRUE, !.cleared = FALSE])
IQSTREAM_Stop(d, log, ok) ==
    Native(d, log, "IQSTREAM_Stop", ok, [d EXCEPT !.streaming = FALSE])
IQSTREAM_ClearAcqStatus(d, log, ok) ==
    Native(d, log, "IQSTREAM_ClearAcqStatus", ok, [d EXCEPT !.cleared = TRUE])
IQBLK_AcquireIQData(d, log, ok) ==
    Native(d, log, "IQBLK_AcquireIQData", ok,
           [d EXCEPT !.running = TRUE, !.acquiring = TRUE])

\* variant: the native set is issued before the range is checked
RangeSetterSetsFirst(d, log, tc, getters, lo, hi, native, field, fail) ==
    IF tc.exc # "none" THEN Fail(tc.exc, tc.msg, d, log)
    ELSE LET rc == check_range(tc.val, lo, hi)
             d2 == [d EXCEPT ![field] = tc.val.v]
         IN  IF rc.exc # "none" THEN Fail(rc.exc, rc.msg, d2, Append(log \o getters, native))
             ELSE Done(d2, Append(log \o getters, native))

\* type check, getters of the bounds, range check, native set, in that order;
\* fail = k > 0 makes the k-th native call return an error status
RangeSetter(d, log, tc, getters, lo, hi, native, field, fail) ==
    LET n == Len(getters) IN
    IF tc.exc # "none" THEN Fail(tc.exc, tc.msg, d, log)
    ELSE IF fail \in 1..n THEN Fail("RSA_Error", "status", d, log \o SubSeq(getters, 1, fail))
    ELSE LET rc   == check_range(tc.val, lo, hi)
             log2 == log \o getters
         IN  IF rc.exc # "none" THEN Fail(rc.exc, rc.msg, d, log2)
             ELSE IF fail = n + 1 THEN Fail("RSA_Error", "status", d, Append(log2, native))
             ELSE Done([d EXCEPT ![field] = rc.val.v], Append(log2, native))

CONFIG_SetCenterFreq(d, log, cf, fail) ==
    RangeSetter(d, log, check_num(cf),
                <<"CONFIG_GetMinCenterFreq", "CONFIG_GetMaxCenterFreq">>,
                U * MinCenterFreq, U * MaxCenterFreq,
                "CONFIG_SetCenterFreq", "cf", fail)

CONFIG_SetReferenceLevel(d, log, refLevel, fail) ==
    RangeSetter(d, log, check_num(refLevel), <<>>,
                U * RefLevelMin, U * RefLevelMax,
                "CONFIG_SetReferenceLevel", "ref", fail)

IQSTREAM_SetAcqBandwidth(d, log, bwHz_req, fail) ==
    RangeSetter(d, log, check_num(bwHz_req),
                <<"IQSTREAM_GetMinAcqBandwidth", "IQSTREAM_GetMaxAcqBandwidth">>,
                MinAcqBandwidth, MaxAcqBandwidth,
                "IQSTREAM_SetAcqBandwidth", "bw", fail)

IQSTREAM_SetDiskFileLength(d, log, msec, fail) ==
    RangeSetter(d, log, check_int(msec), <<>>, U * MinFileLength, Inf,
                "IQSTREAM_SetDiskFileLength", "fileLen", fail)

IQSTREAM_SetDiskFilenameSuffix(d, log, suffixCtl, fail) ==
    RangeSetter(d, log, check_int(suffixCtl), <<>>, U * MinSuffixCtl, Inf,
                "IQSTREAM_SetDiskFilenameSuffix", "suffix", fail)

IQBLK_SetIQBandwidth(d, log, iqBandwidth, fail) ==
    RangeSetter(d, log, check_num(iqBandwidth),
                <<"IQBLK_GetMinIQBandwidth", "IQBLK_GetMaxIQBandwidth">>,
                U * MinIQBandwidth, U * MaxIQBandwidth,
                "IQBLK_SetIQBandwidth", "iqbw", fail)

IQBLK_SetIQRecordLength(d, log, recordLength, fail) ==
    RangeSetter(d, log, check_int(recordLength),
                <<"IQBLK_GetMaxIQRecordLength">>,
                U * MinRecordLength, DeviceMaxRecordLength(d),
                "IQBLK_SetIQRecordLength", "recLen", fail)

\* enumeration tuples
IQSOUTDEST  == <<"CLIENT", "FILE_TIQ", "FILE_SIQ", "FILE_SIQ_SPLIT">>
IQSOUTDTYPE == <<"SINGLE", "INT32", "INT16", "SINGLE_SCALE_INT32">>

Range(seq) == {seq[i] : i \in 1..Len(seq)}
\* tuple.index(x), 0-based
IndexOf(seq, x) == (CHOOSE i \in 1..Len(seq) : seq[i] = x /\ \A j \in 1..(i-1) : seq[j] # x) - 1
\* variant: dtype == "SINGLE"
EqualsSINGLE(str) == str = "SINGLE"
\* "SINGLE" in dtype, for the members of IQSOUTDTYPE
ContainsSINGLE(str) == str \in {"SINGLE", "SINGLE_SCALE_INT32"}

IQSTREAM_SetOutputConfiguration(d, log, dest, dtype, ok) ==
    LET c1 == check_string(dest)
        c2 == check_string(dtype)
    IN  IF c1.exc # "none" THEN Fail(c1.exc, c1.msg, d, log)
        ELSE IF c2.exc # "none" THEN Fail(c2.exc, c2.msg, d, log)
        ELSE IF dest.s \in Range(IQSOUTDEST) /\ dtype.s \in Range(IQSOUTDTYPE)
        THEN IF dest.s = "FILE_TIQ" /\ ContainsSINGLE(dtype.s)
             THEN Fail("RSA_Error", "Invalid selection of TIQ file with single precision data type.", d, log)
             ELSE Native(d, log, "IQSTREAM_SetOutputConfiguration", ok,
                         [d EXCEPT !.outCfg = <<IndexOf(IQSOUTDEST, dest.s),
                                              IndexOf(IQSOUTDTYPE, dtype.s)>>])
        ELSE Fail("RSA_Error", "Input data type or destination string invalid.", d, log)

\* the filename base is the temporary directory dir plus '/tempIQ'
IQSTREAM_SetDiskFilenameBase(d, log, filenameBase, dir, ok) ==
    LET c == check_string(filenameBase)
    IN  IF c.exc # "none" THEN Fail(c.exc, c.msg, d, log)
        ELSE Native(d, log, "IQSTREAM_SetDiskFilenameBaseW", ok, [d EXCEPT !.fname = dir])

\* further setters and the getters of the command layer

\* c_float(x): a single-precision value has a shorter significand than a Python
\* float; on the grid of the model it is a multiple of SingleStep eighths,
\* rounded to nearest, ties to even
c_float(v) ==
    LET q == v \div SingleStep
        r == v % SingleStep
    IN  IF 2 * r < SingleStep THEN q * SingleStep
        ELSE IF 2 * r > SingleStep THEN (q + 1) * SingleStep
        ELSE (IF q % 2 = 0 THEN q ELSE q + 1) * SingleStep

\* a string equal to a literal but held by another object (built at run time)
PyStrCopy(str) == [t |-> "str", v |-> 1, s |-> str]
\* x is 'literal': the very object of the interned literal
Is(x, literal) == x.t = "str" /\ x.s = literal /\ x.v = 0

check_bool(input) ==
    IF input.t = "bool" THEN Ok(input)
    ELSE Raised("TypeError", "Input must be a boolean.")

FREQREF_SOURCE     == <<"INTERNAL", "EXTREF", "GNSS", "USER">>
TRIGGER_MODE       == <<"freeRun", "triggered">>
TRIGGER_SOURCE     == <<"External", "IFPowerLevel">>
TRIGGER_TRANSITION == <<"LH", "HL", "Either">>

\* type check and native set, no range
TypeSetter(d, log, tc, native, field, val, ok) ==
    IF tc.exc # "none" THEN Fail(tc.exc, tc.msg, d, log)
    ELSE Native(d, log, native, ok, [d EXCEPT ![field] = val])

\* string check, membership, native set with the ordinal
EnumSetter(d, log, x, tuple, native, field, msg, ok) ==
    LET c == check_string(x) IN
    IF c.exc # "none" THEN Fail(c.exc, c.msg, d, log)
    ELSE IF x.s \in Range(tuple)
    THEN Native(d, log, native, ok, [d EXCEPT ![field] = IndexOf(tuple, x.s)])
    ELSE Fail("RSA_Error", msg, d, log)

\* the source the device holds after source ord was requested: EXTREF without
\* a valid signal switches to USER or INTERNAL, USER without a user setting
\* switches to INTERNAL
FreqRefHeld(ord) ==
    CASE ord = 1 -> {1, 3, 0}
      [] ord = 3 -> {3, 0}
      [] OTHER   -> {ord}

\* getters: one native call, the value behind the output reference
NumGetter(ok, v8) == IF ok THEN Ok(PyFloat(v8)) ELSE Raised("RSA_Error", "status")
\* variant: the getter ignores the ordinal
EnumGetterFirst(ok, tuple, ord) == IF ok THEN Ok(PyStr(tuple[1])) ELSE Raised("RSA_Error", "status")
EnumGetter(ok, tuple, ord) == IF ok THEN Ok(PyStr(tuple[ord + 1])) ELSE Raised("RSA_Error", "status")

\* status words: run-summary bits 16..21 and the per-block bit 5
StatusBits == {5, 16, 17, 18, 19, 20, 21}
RECURSIVE SumPow2(_)
SumPow2(bits) ==
    IF bits = {} THEN 0
    ELSE LET b == CHOOSE x \in bits : TRUE IN 2^b + SumPow2(bits \ {b})
StatusWords == {SumPow2(bits) : bits \in SUBSET StatusBits}

\* status & mask # 0 for mask = 2^n
BitSet(status, n) == (status \div 2^n) % 2 = 1

\* variant: the output buffer conditions are looked at before the input ones
StatusParserOutputFirst(status) ==
    IF status = 0 THEN Ok(0)
    ELSE IF BitSet(status, 21) THEN Raised("RSA_Error", "Output buffer overflow. File writing too slow, data loss has occurred.")
    ELSE IF BitSet(status, 20) THEN Raised("RSA_Error", "Output buffer > 75% full.")
    ELSE IF BitSet(status, 16) THEN Raised("RSA_Error", "Input overrange.")
    ELSE IF BitSet(status, 18) THEN Raised("RSA_Error", "Input buffer > 75% full.")
    ELSE IF BitSet(status, 19) THEN Raised("RSA_Error", "Input buffer overflow. IQStream processing too slow, data loss has occurred.")
    ELSE Ok(0)

\* variant: every non-zero status is an error
StatusParserAnyBit(status) ==
    IF status = 0 THEN Ok(0)
    ELSE IF BitSet(status, 16) THEN Raised("RSA_Error", "Input overrange.")
    ELSE Raised("RSA_Error", "Input buffer > 75% full.")

IQSTREAM_StatusParser(status) ==
    IF status = 0 THEN Ok(0)
    ELSE IF BitSet(status, 16) THEN Raised("RSA_Error", "Input overrange.")
    ELSE IF BitSet(status, 18) THEN Raised("RSA_Error", "Input buffer > 75% full.")
    ELSE IF BitSet(status, 19) THEN Raised("RSA_Error", "Input buffer overflow. IQStream processing too slow, data loss has occurred.")
    ELSE IF BitSet(status, 20) THEN Raised("RSA_Error", "Output buffer > 75% full.")
    ELSE IF BitSet(status, 21) THEN Raised("RSA_Error", "Output buffer overflow. File writing too slow, data loss has occurred.")
    ELSE Ok(0)

-----------------------------------------------------------------------------
(* numpy / Python sequence operations; Python indices are 0-based *)

Min(a, b) == IF a < b THEN a ELSE b
Max(a, b) == IF a > b THEN a ELSE b

\* a slice bound, clamped as Python does (negative counts from the end)
SliceBound(i, n) == IF i < 0 THEN Max(n + i, 0) ELSE Min(i, n)

\* seq[start:stop:step], step > 0
PySlice(seq, start, stop, step) ==
    LET n   == Len(seq)
        a   == SliceBound(start, n)
        b   == SliceBound(stop, n)
        cnt == IF b > a THEN (b - a + step - 1) \div step ELSE 0
    IN  [k \in 1..cnt |-> seq[a + (k - 1) * step + 1]]

\* seq[start:]
PySliceFrom(seq, start) == PySlice(seq, start, Len(seq), 1)

\* i + 1j*q with numpy broadcasting of one-dimensional arrays
ComplexAdd(i, q) ==
    IF Len(i) = Len(q) THEN Ok([k \in 1..Len(i) |-> <<i[k], q[k]>>])
    ELSE IF Len(i) = 1 THEN Ok([k \in 1..Len(q) |-> <<i[1], q[k]>>])
    ELSE IF Len(q) = 1 THEN Ok([k \in 1..Len(i) |-> <<i[k], q[1]>>])
    ELSE Raised("ValueError", "operands could not be broadcast together")

\* i = d[0:-1:2]
DeinterleaveI(d) == PySlice(d, 0, -1, 2)

\* variant: q = d[1:-1:2], the last value is dropped
DeinterleaveQDropsLast(d) == PySlice(d, 1, -1, 2)

\* q = np.append(d[1:-1:2], d[-1])
DeinterleaveQ(d) == Append(PySlice(d, 1, -1, 2), d[Len(d)])

\* the deinterleaving and recombination at the end of IQSTREAM_Tempfile
Deinterleave(d) ==
    IF Len(d) = 0 THEN Raised("IndexError", "index -1 is out of bounds")
    ELSE ComplexAdd(DeinterleaveI(d), DeinterleaveQ(d))

-----------------------------------------------------------------------------
(* Temporary storage: tempfile.TemporaryDirectory and the files in it *)

DirEntry(dir)        == [dir |-> dir, file |-> ""]
FileEntry(dir, name) == [dir |-> dir, file |-> name]
\* removal of the directory with everything in it
RemoveTree(paths, dir) == {p \in paths : p.dir # dir}

-----------------------------------------------------------------------------
(* Locals and results *)

NoVal == PyInt(0)

TfIdle ==
    [ cf |-> NoVal, refLevel |-> NoVal, bw |-> NoVal, durationMsec |-> NoVal,
      tmpDir |-> 0, polls |-> 0, complete |-> FALSE, status |-> 0,
      d |-> <<>>, iqData |-> <<>> ]

AcqIdle ==
    [ num_samples |-> 0, nskip |-> 0, nsamps |-> 0, nsamps_original |-> 0,
      durationMsec |-> 0, need_to_skip |-> 0, fix_flag |-> FALSE,
      retries |-> 0, max_retries |-> 0,
      caller |-> "",            \* "client" or "healthy": who called
      attempts |-> 0,           \* captures started by this call
      hist |-> <<>>,            \* per completed capture: did the count match
      capture_time |-> 0,       \* self._capture_time, 0 = None
      stamps |-> <<>> ]         \* timestamp taken by each attempt

BlkIdle == [ cf |-> NoVal, refLevel |-> NoVal, iqBw |-> NoVal, recLen |-> NoVal,
             tOutMs |-> NoVal, func |-> "", polls |-> 0, ready |-> FALSE ]

NoOutcome == [ op |-> "none", kind |-> "none", exc |-> "none", msg |-> "", n |-> 0,
               data |-> <<>>, capture_time |-> 0 ]

\* RSA306BRadio.__init__ up to the call of connect; mock is
\* settings.RUNNING_TESTS or settings.MOCK_RADIO
\* min_frequency, max_frequency: 0 = None
RadioInit(mock) == [ is_available |-> FALSE, rsa |-> "None", mock |-> mock,
                     min_frequency |-> 0, max_frequency |-> 0 ]

AlIdle ==
    [ caller |-> "",            \* "connect" or "client": who called align
      retries |-> 0, max_retries |-> 0,
      hist |-> <<>>,            \* per attempt of align: "error" or "clean"
      warmedUp |-> "unread",    \* readings of the attempt in progress: "true", "false"
      needed |-> "unread",
      runs |-> 0,               \* ALIGN_RunAlignment calls that completed
      logged |-> <<>> ]         \* the exception connect caught and logged

\* a command of the command layer: its arguments, how it ended, the value a
\* getter returned, the device before it
NoCmd == [ name |-> "", arg |-> NoVal, arg2 |-> NoVal, exc |-> "none", msg |-> "",
           val |-> NoVal, before |-> Preset ]

\* the operation in progress ends by an exception; n is the number its message carries
EndRaiseN(exc, msg, n) ==
    /\ outcome' = [ op |-> op, kind |-> "raise", exc |-> exc, msg |-> msg, n |-> n,
                    data |-> <<>>, capture_time |-> 0 ]
    /\ op' = "idle"
    /\ pc' = "idle"

EndRaise(exc, msg) == EndRaiseN(exc, msg, 0)

\* the operation in progress returns
EndReturn(data, ctime) ==
    /\ outcome' = [ op |-> op, kind |-> "return", exc |-> "none", msg |-> "", n |-> 0,
                    data |-> data, capture_time |-> ctime ]
    /\ op' = "idle"
    /\ pc' = "idle"

\* the caller takes the result (or the exception) of the finished operation;
\* the locals of the finished call are gone
Collect ==
    /\ op = "idle"
    /\ outcome.kind # "none"
    /\ ~(outcome.op = "acquire" /\ acq.caller = "healthy")   \* healthy takes that one
    /\ outcome' = NoOutcome
    /\ acq' = AcqIdle
    /\ blk' = BlkIdle
    /\ al' = AlIdle
    /\ calls' = <<>>
    /\ tmpMade' = 0
    /\ UNCHANGED <<dev, fs, op, pc, tf, arg, res, radio, cmd, lastSet>>

-----------------------------------------------------------------------------
(* IQSTREAM_Tempfile, statement by statement *)

\* variant: the radio catches a failed capture and retries it
TfRaiseRetry(r) ==
    IF op = "acquire" /\ acq.retries > 0
    THEN /\ dev' = r.dev
         /\ calls' = r.calls
         /\ fs' = RemoveTree(fs, tf.tmpDir)
         /\ tf' = TfIdle
         /\ acq' = [acq EXCEPT !.retries = @ - 1]
         /\ pc' = "A_Capture"
         /\ UNCHANGED <<tmpMade, op, blk, outcome, arg, res, radio, al, cmd, lastSet>>
    ELSE /\ dev' = r.dev
         /\ calls' = r.calls
         /\ fs' = RemoveTree(fs, tf.tmpDir)
         /\ tf' = TfIdle
         /\ EndRaise(r.exc, r.msg)
         /\ UNCHANGED <<tmpMade, acq, blk, arg, res, radio, al, cmd, lastSet>>

\* variant: the temporary directory is removed on the successful path only
TfRaiseLeak(r) ==
    /\ dev' = r.dev
    /\ calls' = r.calls
    /\ tf' = TfIdle
    /\ EndRaise(r.exc, r.msg)
    /\ UNCHANGED <<fs, tmpMade, acq, blk, arg, res, radio, al, cmd, lastSet>>

\* an exception inside IQSTREAM_Tempfile: the with-block removes the temporary
\* directory, and neither IQSTREAM_Tempfile nor its caller catches anything
TfRaise(r) ==
    /\ dev' = r.dev
    /\ calls' = r.calls
    /\ fs' = RemoveTree(fs, tf.tmpDir)
    /\ tf' = TfIdle
    /\ EndRaise(r.exc, r.msg)
    /\ UNCHANGED <<tmpMade, acq, blk, arg, res, radio, al, cmd, lastSet>>

\* the statement completed (or raised): go on with the next one
TfStep(r, nextpc) ==
    IF r.exc = "none"
    THEN /\ dev' = r.dev
         /\ calls' = r.calls
         /\ pc' = nextpc
         /\ UNCHANGED <<fs, tmpMade, op, acq, tf, blk, outcome, arg, res, radio, al, cmd, lastSet>>
    ELSE TfRaise(r)

\* variant: the capture is configured without stopping the device first
T_DeviceStopSkipped ==
    /\ pc = "T_DeviceStop"
    /\ pc' = "T_TemporaryDirectory"
    /\ UNCHANGED <<dev, fs, tmpMade, calls, op, acq, tf, blk, outcome, arg, res, radio, al, cmd, lastSet>>

\* DEVICE_Stop(): ensure the device is stopped before proceeding
T_DeviceStop ==
    /\ pc = "T_DeviceStop"
    /\ \E ok \in BOOLEAN : TfStep(DEVICE_Stop(dev, calls, ok), "T_TemporaryDirectory")

\* with tempfile.TemporaryDirectory() as tmpDir
T_TemporaryDirectory ==
    /\ pc = "T_TemporaryDirectory"
    /\ tmpMade' = tmpMade + 1
    /\ fs' = fs \cup {DirEntry(tmpMade + 1)}
    /\ tf' = [tf EXCEPT !.tmpDir = tmpMade + 1]
    /\ pc' = "T_SetCenterFreq"
    /\ UNCHANGED <<dev, calls, op, acq, blk, outcome, arg, res, radio, al, cmd, lastSet>>

T_SetCenterFreq ==
    /\ pc = "T_SetCenterFreq"
    /\ \E fail \in 0..3 :
         TfStep(CONFIG_SetCenterFreq(dev, calls, tf.cf, fail), "T_SetReferenceLevel")

T_SetReferenceLevel ==
    /\ pc = "T_SetReferenceLevel"
    /\ \E fail \in 0..1 :
         TfStep(CONFIG_SetReferenceLevel(dev, calls, tf.refLevel, fail), "T_SetAcqBandwidth")

T_SetAcqBandwidth ==
    /\ pc = "T_SetAcqBandwidth"
    /\ \E fail \in 0..3 :
         TfStep(IQSTREAM_SetAcqBandwidth(dev, calls, tf.bw, fail), "T_SetOutputConfiguration")

T_SetOutputConfiguration ==
    /\ pc = "T_SetOutputConfiguration"
    /\ \E ok \in BOOLEAN :
         TfStep(IQSTREAM_SetOutputConfiguration(dev, calls, PyStr(IQSOUTDEST[4]),
                                                PyStr(IQSOUTDTYPE[1]), ok),
                "T_SetDiskFilenameBase")

T_SetDiskFilenameBase ==
    /\ pc = "T_SetDiskFilenameBase"
    /\ \E ok \in BOOLEAN :
         TfStep(IQSTREAM_SetDiskFilenameBase(dev, calls, PyStr("tmpDir/tempIQ"), tf.tmpDir, ok),
                "T_SetDiskFilenameSuffix")

T_SetDiskFilenameSuffix ==
    /\ pc = "T_SetDiskFilenameSuffix"
    /\ \E fail \in 0..1 :
         TfStep(IQSTREAM_SetDiskFilenameSuffix(dev, calls, PyInt(SuffixCtl), fail),
                "T_SetDiskFileLength")

T_SetDiskFileLength ==
    /\ pc = "T_SetDiskFileLength"
    /\ \E fail \in 0..1 :
         TfStep(IQSTREAM_SetDiskFileLength(dev, calls, tf.durationMsec, fail),
                "T_ClearAcqStatus")

T_ClearAcqStatus ==
    /\ pc = "T_ClearAcqStatus"
    /\ \E ok \in BOOLEAN : TfStep(IQSTREAM_ClearAcqStatus(dev, calls, ok), "T_DeviceRun")

T_DeviceRun ==
    /\ pc = "T_DeviceRun"
    /\ \E ok \in BOOLEAN : TfStep(DEVICE_Run(dev, calls, ok), "T_Start")

\* IQSTREAM_Start(): the device creates the header and data files
T_Start ==
    /\ pc = "T_Start"
    /\ \E ok \in BOOLEAN :
         LET r == IQSTREAM_Start(dev, calls, ok) IN
         IF r.exc = "none"
         THEN /\ dev' = r.dev
              /\ calls' = r.calls
              /\ fs' = fs \cup {FileEntry(dev.fname, "tempIQ.siqh"),
                                FileEntry(dev.fname, "tempIQ.siqd")}
              /\ pc' = "T_Poll"
              /\ UNCHANGED <<tmpMade, op, acq, tf, blk, outcome, arg, res, radio, al, cmd, lastSet>>
         ELSE TfRaise(r)

\* while not complete: sleep; (complete, writing) = IQSTREAM_GetDiskFileWriteStatus()
\* the device completes at the latest on poll MaxPolls
T_Poll ==
    /\ pc = "T_Poll"
    /\ \E ok \in BOOLEAN, complete \in BOOLEAN :
         LET log == Append(calls, "IQSTREAM_GetDiskFileWriteStatus") IN
         IF ~ok THEN TfRaise(Fail("RSA_Error", "status", dev, log))
         ELSE /\ complete \/ tf.polls + 1 < MaxPolls
              /\ calls' = log
              /\ tf' = [tf EXCEPT !.polls = IF complete THEN 0 ELSE @ + 1,
                                  !.complete = complete]
              /\ pc' = IF complete THEN "T_Stop" ELSE "T_Poll"
              /\ UNCHANGED <<dev, fs, tmpMade, op, acq, blk, outcome, arg, res, radio, al, cmd, lastSet>>

T_Stop ==
    /\ pc = "T_Stop"
    /\ \E ok \in BOOLEAN : TfStep(IQSTREAM_Stop(dev, calls, ok), "T_GetDiskFileInfo")

\* fileInfo = IQSTREAM_GetDiskFileInfo(): the device reports the status word
T_GetDiskFileInfo ==
    /\ pc = "T_GetDiskFileInfo"
    /\ \E ok \in BOOLEAN, status \in StatusWords :
         LET log == Append(calls, "IQSTREAM_GetDiskFileInfo") IN
         IF ~ok THEN TfRaise(Fail("RSA_Error", "status", dev, log))
         ELSE /\ calls' = log
              /\ tf' = [tf EXCEPT !.status = status]
              /\ pc' = "T_StatusParser"
              /\ UNCHANGED <<dev, fs, tmpMade, op, acq, blk, outcome, arg, res, radio, al, cmd, lastSet>>

\* IQSTREAM_StatusParser(fileInfo)
T_StatusParser ==
    /\ pc = "T_StatusParser"
    /\ LET r == IQSTREAM_StatusParser(tf.status) IN
       IF r.exc = "none"
       THEN /\ tf' = [tf EXCEPT !.status = 0]
            /\ pc' = "T_DeviceStop2"
            /\ UNCHANGED <<dev, fs, tmpMade, calls, op, acq, blk, outcome, arg, res, radio, al, cmd, lastSet>>
       ELSE TfRaise(Fail(r.exc, r.msg, dev, calls))

T_DeviceStop2 ==
    /\ pc = "T_DeviceStop2"
    /\ \E ok \in BOOLEAN : TfStep(DEVICE_Stop(dev, calls, ok), "T_Read")

\* with open(filenameBase + '.siqd', 'rb') as f: d = np.frombuffer(f.read(), float32)
\* the file holds n IQ pairs, i.e. 2n values; d[k] is written k for the k-th
\* value of the file.  Leaving the with-block removes the directory.
T_Read ==
    /\ pc = "T_Read"
    /\ IF FileEntry(tf.tmpDir, "tempIQ.siqd") \notin fs
       THEN TfRaise(Fail("FileNotFoundError", "tempIQ.siqd", dev, calls))
       ELSE \E n \in 0..MaxRaw :
              /\ tf' = [tf EXCEPT !.d = [k \in 1..(2 * n) |-> k], !.tmpDir = 0]
              /\ fs' = RemoveTree(fs, tf.tmpDir)
              /\ pc' = "T_Deinterleave"
              /\ UNCHANGED <<dev, tmpMade, calls, op, acq, blk, outcome, arg, res, radio, al, cmd, lastSet>>

\* deinterleave, recombine, return iqData
T_Deinterleave ==
    /\ pc = "T_Deinterleave"
    /\ LET r == Deinterleave(tf.d) IN
       IF r.exc # "none" THEN TfRaise(Fail(r.exc, r.msg, dev, calls))
       ELSE IF op = "acquire"
       THEN /\ tf' = [TfIdle EXCEPT !.iqData = r.val]
            /\ pc' = "A_Check"
            /\ UNCHANGED <<dev, fs, tmpMade, calls, op, acq, blk, outcome, arg, res, radio, al, cmd, lastSet>>
       ELSE /\ tf' = TfIdle
            /\ EndReturn(r.val, 0)
            /\ UNCHANGED <<dev, fs, tmpMade, calls, acq, blk, arg, res, radio, al, cmd, lastSet>>

IQSTREAM_Tempfile ==
    \/ T_DeviceStop \/ T_TemporaryDirectory \/ T_SetCenterFreq \/ T_SetReferenceLevel
    \/ T_SetAcqBandwidth \/ T_SetOutputConfiguration \/ T_SetDiskFilenameBase
    \/ T_SetDiskFilenameSuffix \/ T_SetDiskFileLength \/ T_ClearAcqStatus
    \/ T_DeviceRun \/ T_Start \/ T_Poll \/ T_Stop \/ T_GetDiskFileInfo
    \/ T_StatusParser \/ T_DeviceStop2 \/ T_Read \/ T_Deinterleave

\* a client calls IQSTREAM_Tempfile(cf, refLevel, bw, durationMsec) directly
CenterFreqArgs == { PyInt(MinCenterFreq), PyInt(MaxCenterFreq), PyInt(MaxCenterFreq + 1),
                    PyStr("abc") }
RefLevelArgs   == { PyInt(0), PyInt(RefLevelMax), PyInt(RefLevelMax + 1), PyBool(TRUE) }
BandwidthArgs  == { PyFloat(MinAcqBandwidth), PyFloat(MaxAcqBandwidth + U) }
DurationArgs   == { PyInt(1), PyInt(-1), PyFloat(U + 4) }

Call_IQSTREAM_Tempfile ==
    /\ op = "idle"
    /\ outcome.kind = "none"
    /\ \E cf \in CenterFreqArgs, refLevel \in RefLevelArgs,
          bw \in BandwidthArgs, durationMsec \in DurationArgs :
         tf' = [TfIdle EXCEPT !.cf = cf, !.refLevel = refLevel, !.bw = bw,
                              !.durationMsec = durationMsec]
    /\ op' = "tempfile"
    /\ pc' = "T_DeviceStop"
    /\ calls' = <<>>
    /\ tmpMade' = 0
    /\ outcome' = NoOutcome
    /\ UNCHANGED <<dev, fs, acq, blk, arg, res, radio, al, cmd, lastSet>>

-----------------------------------------------------------------------------
(* RSA306BRadio.acquire_time_domain_samples *)

RetryArgs == (0..MaxRetries) \cup {DefaultRetries}

\* variant: the extra skip is rounded up
NeedToSkipCeil(sample_rate, nsamps_original) ==
    (sample_rate - 1000 * U * nsamps_original) \div (1000 * U) + 1

\* int((self.sample_rate/1000) - nsamps_original), the rate in eighths
NeedToSkip(sample_rate, nsamps_original) ==
    (sample_rate - 1000 * U * nsamps_original) \div (1000 * U)

\* the prologue, up to the loop: calibration refresh, gain, duration, fix-up.
\* ok: every device query of the prologue succeeded; overflow: 10 ** (db_gain / 20)
\* is out of the range of a float
A_Prologue(num_samples, num_samples_skip, retries, caller) ==
    /\ op = "idle"
    /\ outcome.kind = "none"
    /\ \E ok \in BOOLEAN, overflow \in BOOLEAN :
         LET nskip           == num_samples_skip
             nsamps_original == num_samples + nskip
             sample_rate     == DeviceSampleRate(dev.bw)
             duration        == (1000 * nsamps_original * U) \div sample_rate
             fix_flag        == duration = 0
             need_to_skip    == IF fix_flag THEN NeedToSkip(sample_rate, nsamps_original)
                                ELSE 0
             locals == [ AcqIdle EXCEPT
                           !.num_samples = num_samples, !.nskip = nskip,
                           !.nsamps = need_to_skip + nsamps_original,
                           !.nsamps_original = nsamps_original,
                           !.durationMsec = IF fix_flag THEN 1 ELSE duration,
                           !.need_to_skip = need_to_skip, !.fix_flag = fix_flag,
                           !.retries = retries, !.max_retries = retries,
                           !.caller = caller ]
         IN  /\ acq' = locals
             /\ IF ~ok THEN /\ op' = "idle" /\ pc' = "idle"
                            /\ outcome' = [NoOutcome EXCEPT !.op = "acquire", !.kind = "raise",
                                                            !.exc = "RSA_Error", !.msg = "status"]
                ELSE IF overflow
                THEN /\ op' = "idle" /\ pc' = "idle"
                     /\ outcome' = [NoOutcome EXCEPT !.op = "acquire", !.kind = "raise",
                                                     !.exc = "OverflowError"]
                ELSE /\ op' = "acquire" /\ pc' = "A_Capture"
                     /\ outcome' = NoOutcome
    /\ calls' = <<>>
    /\ tmpMade' = 0
    /\ UNCHANGED <<dev, fs, tf, blk, arg, radio, al, cmd, lastSet>>

\* a client calls acquire_time_domain_samples(num_samples, num_samples_skip, retries)
A_Call ==
    /\ \E num_samples \in 0..MaxN, num_samples_skip \in 0..MaxS, retries \in RetryArgs :
         A_Prologue(num_samples, num_samples_skip, retries, "client")
    /\ UNCHANGED res

\* variant: the timestamp is taken once, by the first attempt
CaptureTimeFirst(a, now) == IF a.capture_time = 0 THEN now ELSE a.capture_time

\* self._capture_time = utils.get_datetime_str_now()
CaptureTime(a, now) == now

\* top of the loop: take the timestamp, evaluate the arguments, enter IQSTREAM_Tempfile
A_Capture ==
    /\ pc = "A_Capture"
    /\ LET stamp == Len(acq.stamps) + 1   \* the clock advances between attempts
           acq2  == [acq EXCEPT !.capture_time = CaptureTime(acq, stamp),
                                !.stamps = Append(@, stamp)]
           bw    == sr_bw_map(DeviceSampleRate(dev.bw))
       IN  \E ok \in BOOLEAN :
                IF ~ok
                THEN acq' = acq2 /\ EndRaise("RSA_Error", "status") /\ UNCHANGED <<tf, calls>>
                ELSE IF bw.exc # "none"
                THEN acq' = acq2 /\ EndRaise(bw.exc, bw.msg) /\ UNCHANGED <<tf, calls>>
                ELSE /\ acq' = [acq2 EXCEPT !.attempts = @ + 1]
                     /\ tf' = [TfIdle EXCEPT !.cf = PyFloat(dev.cf), !.refLevel = PyFloat(dev.ref),
                                             !.bw = PyFloat(bw.val),
                                             !.durationMsec = PyInt(acq.durationMsec)]
                     /\ calls' = <<>>
                     /\ pc' = "T_DeviceStop"
                     /\ UNCHANGED <<op, outcome>>
    /\ UNCHANGED <<dev, fs, tmpMade, blk, arg, res, radio, al, cmd, lastSet>>

\* variant: a capture that is long enough is accepted
CountAtLeast(data_len, nsamps_original) == data_len >= nsamps_original

\* if not data_len == nsamps_original, negated
CountMatches(data_len, nsamps_original) == data_len = nsamps_original

\* variant: the comparison is inverted, no retry is ever made
MayRetryInverted(retries) == retries < 0

\* variant: one retry more than asked for
MayRetryOnceMore(retries) == retries >= 0

\* if retries > 0
MayRetry(retries) == retries > 0

\* variant: a deviating capture costs two retries
RetriesLeftLessTwo(retries) == retries - 2

\* retries = retries - 1
RetriesLeft(retries) == retries - 1

\* IQSTREAM_Tempfile returned: truncate, compare the count, retry, fail or return
A_Check ==
    /\ pc = "A_Check"
    /\ LET fixed    == IF acq.fix_flag THEN PySliceFrom(tf.iqData, acq.need_to_skip)
                       ELSE tf.iqData
           data_len == Len(fixed)
           data     == PySliceFrom(fixed, acq.nskip)
           match    == CountMatches(data_len, acq.nsamps_original)
           acq2     == [acq EXCEPT !.hist = Append(@, match)]
       IN  IF ~match
           THEN IF MayRetry(acq.retries)
                THEN /\ acq' = [acq2 EXCEPT !.retries = RetriesLeft(@)]
                     /\ pc' = "A_Capture"
                     /\ UNCHANGED <<op, outcome>>
                ELSE /\ acq' = acq2
                     /\ EndRaiseN("RuntimeError",
                                  "Failed to acquire correct number of samples n times in a row.",
                                  acq.max_retries)
           ELSE /\ acq' = acq2
                /\ \E ok \in BOOLEAN :       \* the device queries of the result
                     IF ok THEN EndReturn(data, acq.capture_time)
                     ELSE EndRaise("RSA_Error", "status")
    /\ tf' = TfIdle
    /\ UNCHANGED <<dev, fs, tmpMade, calls, blk, arg, res, radio, al, cmd, lastSet>>

acquire_time_domain_samples == A_Call \/ A_Capture \/ A_Check

-----------------------------------------------------------------------------
(* RSA306BRadio.healthy *)

\* variant: the health check reports True whatever the acquisition did
HealthResultAlways(o) == TRUE

\* return False in the except clause, return True after the try statement
HealthResult(o) == o.kind # "raise"

\* healthy is read: acquire_time_domain_samples(num_samples) with the default
\* skip and retries; without a device handle the first device query raises
\* AttributeError
H_Call ==
    /\ res' = Ok(0)
    /\ IF radio.rsa = "None"
       THEN /\ op = "idle"
            /\ outcome.kind = "none"
            /\ acq' = [AcqIdle EXCEPT !.num_samples = HealthSamples, !.caller = "healthy"]
            /\ outcome' = [NoOutcome EXCEPT !.op = "acquire", !.kind = "raise",
                                            !.exc = "AttributeError"]
            /\ calls' = <<>>
            /\ tmpMade' = 0
            /\ UNCHANGED <<dev, fs, op, pc, tf, blk, arg, radio, al, cmd, lastSet>>
       ELSE A_Prologue(HealthSamples, 0, DefaultRetries, "healthy")

\* the try statement ends: an exception is logged and False is returned,
\* otherwise the length of the data is compared (and logged) and True returned
H_Return ==
    /\ op = "idle"
    /\ outcome.op = "acquire"
    /\ acq.caller = "healthy"
    /\ res' = Ok(PyBool(HealthResult(outcome)))
    /\ outcome' = [outcome EXCEPT !.op = "healthy", !.kind = "return", !.data = <<>>,
                                  !.capture_time = 0]
    /\ UNCHANGED <<dev, fs, tmpMade, calls, op, pc, acq, tf, blk, arg, radio, al, cmd, lastSet>>

healthy == H_Call \/ H_Return

-----------------------------------------------------------------------------
(* IQ block helpers: IQBLK_Configure and IQBLK_Acquire *)

IQBLK_WaitForIQDataReady(d, log, timeoutMsec, ok) ==
    LET c == check_int(timeoutMsec)
    IN  IF c.exc # "none" THEN Fail(c.exc, c.msg, d, log)
        ELSE Native(d, log, "IQBLK_WaitForIQDataReady", ok, d)

\* IQBLK_GetIQData and IQBLK_GetIQDataDeinterleaved: type check, query of the
\* maximum, range check, then the native retrieval; fail as in RangeSetter
IQBLK_GetIQDataDeinterleaved(d, log, reqLength, native, fail) ==
    LET c == check_int(reqLength) IN
    IF c.exc # "none" THEN Fail(c.exc, c.msg, d, log)
    ELSE IF fail = 1 THEN Fail("RSA_Error", "status", d, Append(log, "IQBLK_GetMaxIQRecordLength"))
    ELSE LET rc   == check_range(c.val, U * MinRecordLength, DeviceMaxRecordLength(d))
             log2 == Append(log, "IQBLK_GetMaxIQRecordLength")
         IN  IF rc.exc # "none" THEN Fail(rc.exc, rc.msg, d, log2)
             ELSE IF fail = 2 THEN Fail("RSA_Error", "status", d, Append(log2, native))
             ELSE Done([d EXCEPT !.acquiring = FALSE], Append(log2, native))

BlkRaise(r) ==
    /\ dev' = r.dev
    /\ calls' = r.calls
    /\ EndRaise(r.exc, r.msg)
    /\ UNCHANGED <<fs, tmpMade, acq, tf, blk, arg, res, radio, al, cmd, lastSet>>

BlkStep(r, nextpc) ==
    IF r.exc = "none"
    THEN /\ dev' = r.dev
         /\ calls' = r.calls
         /\ pc' = nextpc
         /\ UNCHANGED <<fs, tmpMade, op, acq, tf, blk, outcome, arg, res, radio, al, cmd, lastSet>>
    ELSE BlkRaise(r)

\* the last statement of a helper: return on success
BlkLast(r, data) ==
    IF r.exc = "none"
    THEN /\ dev' = r.dev
         /\ calls' = r.calls
         /\ EndReturn(data, 0)
         /\ UNCHANGED <<fs, tmpMade, acq, tf, blk, arg, res, radio, al, cmd, lastSet>>
    ELSE BlkRaise(r)

IQBandwidthArgs == { PyInt(MinIQBandwidth), PyInt(MaxIQBandwidth), PyInt(MaxIQBandwidth + 1) }
RecordLengthArgs ==
    { PyInt(MinRecordLength - 1), PyInt(MinRecordLength),
      PyInt(RecLenPerBW * MinIQBandwidth + 1),      \* valid only above the minimum bandwidth
      PyInt(RecLenPerBW * MaxIQBandwidth + 1),      \* above every maximum
      PyFloat(U * MinRecordLength), PyFloat(U * MinRecordLength + 4), PyStr("abc") }
TimeoutArgs == { PyInt(10), PyStr("abc") }
BlockFunctions == { "IQBLK_GetIQData", "IQBLK_GetIQDataDeinterleaved" }

Call_IQBLK_Configure ==
    /\ op = "idle"
    /\ outcome.kind = "none"
    /\ \E cf \in CenterFreqArgs, refLevel \in RefLevelArgs,
          iqBw \in IQBandwidthArgs, recordLength \in RecordLengthArgs :
         blk' = [BlkIdle EXCEPT !.cf = cf, !.refLevel = refLevel, !.iqBw = iqBw,
                                !.recLen = recordLength]
    /\ op' = "blk_configure"
    /\ pc' = "C_SetCenterFreq"
    /\ calls' = <<>>
    /\ UNCHANGED <<dev, fs, tmpMade, acq, tf, outcome, arg, res, radio, al, cmd, lastSet>>

C_SetCenterFreq ==
    /\ pc = "C_SetCenterFreq"
    /\ \E fail \in 0..3 :
         BlkStep(CONFIG_SetCenterFreq(dev, calls, blk.cf, fail), "C_SetReferenceLevel")

C_SetReferenceLevel ==
    /\ pc = "C_SetReferenceLevel"
    /\ \E fail \in 0..1 :
         BlkStep(CONFIG_SetReferenceLevel(dev, calls, blk.refLevel, fail), "C_SetIQBandwidth")

C_SetIQBandwidth ==
    /\ pc = "C_SetIQBandwidth"
    /\ \E fail \in 0..3 :
         BlkStep(IQBLK_SetIQBandwidth(dev, calls, blk.iqBw, fail), "C_SetIQRecordLength")

C_SetIQRecordLength ==
    /\ pc = "C_SetIQRecordLength"
    /\ \E fail \in 0..2 :
         BlkLast(IQBLK_SetIQRecordLength(dev, calls, blk.recLen, fail), <<>>)

IQBLK_Configure ==
    \/ Call_IQBLK_Configure \/ C_SetCenterFreq \/ C_SetReferenceLevel
    \/ C_SetIQBandwidth \/ C_SetIQRecordLength

Call_IQBLK_Acquire ==
    /\ op = "idle"
    /\ outcome.kind = "none"
    /\ \E func \in BlockFunctions, recLen \in RecordLengthArgs, tOutMs \in TimeoutArgs :
         blk' = [BlkIdle EXCEPT !.func = func, !.recLen = recLen, !.tOutMs = tOutMs]
    /\ op' = "blk_acquire"
    /\ pc' = "B_DeviceRun"
    /\ calls' = <<>>
    /\ UNCHANGED <<dev, fs, tmpMade, acq, tf, outcome, arg, res, radio, al, cmd, lastSet>>

B_DeviceRun ==
    /\ pc = "B_DeviceRun"
    /\ \E ok \in BOOLEAN : BlkStep(DEVICE_Run(dev, calls, ok), "B_AcquireIQData")

B_AcquireIQData ==
    /\ pc = "B_AcquireIQData"
    /\ \E ok \in BOOLEAN : BlkStep(IQBLK_AcquireIQData(dev, calls, ok), "B_WaitForIQDataReady")

\* variant: the loop ends after the first check, ready or not
LoopEndsAtOnce(ready) == TRUE

\* while not ready: the loop ends when the check returned true
LoopEnds(ready) == ready

\* while not IQBLK_WaitForIQDataReady(tOutMs): pass
\* the device is ready at the latest on poll MaxPolls
B_WaitForIQDataReady ==
    /\ pc = "B_WaitForIQDataReady"
    /\ \E ok \in BOOLEAN, ready \in BOOLEAN :
         LET r == IQBLK_WaitForIQDataReady(dev, calls, blk.tOutMs, ok) IN
         IF r.exc # "none" THEN BlkRaise(r)
         ELSE /\ ready \/ blk.polls + 1 < MaxPolls
              /\ calls' = r.calls
              /\ blk' = [blk EXCEPT !.polls = @ + 1, !.ready = ready]
              /\ pc' = IF LoopEnds(ready) THEN "B_GetIQData" ELSE "B_WaitForIQDataReady"
              /\ UNCHANGED <<dev, fs, tmpMade, op, acq, tf, outcome, arg, res, radio, al, cmd, lastSet>>

\* variant: the device is stopped after the retrieval
B_GetIQDataThenStop ==
    /\ pc = "B_GetIQData"
    /\ \E fail \in 0..2 :
         LET r == IQBLK_GetIQDataDeinterleaved(dev, calls, blk.recLen, blk.func, fail)
             s == DEVICE_Stop(r.dev, r.calls, TRUE)
             n == (blk.recLen.v \div U) * (IF blk.func = "IQBLK_GetIQData" THEN 2 ELSE 1)
         IN  BlkLast(IF r.exc = "none" THEN s ELSE r, [k \in 1..n |-> k])

\* return func(recLen)
B_GetIQData ==
    /\ pc = "B_GetIQData"
    /\ \E fail \in 0..2 :
         LET r == IQBLK_GetIQDataDeinterleaved(dev, calls, blk.recLen, blk.func, fail)
             n == (blk.recLen.v \div U) * (IF blk.func = "IQBLK_GetIQData" THEN 2 ELSE 1)
         IN  BlkLast(r, [k \in 1..n |-> k])

IQBLK_Acquire ==
    \/ Call_IQBLK_Acquire \/ B_DeviceRun \/ B_AcquireIQData
    \/ B_WaitForIQDataReady \/ B_GetIQData

\* a client stops the device
Call_DEVICE_Stop ==
    /\ op = "idle"
    /\ outcome.kind = "none"
    /\ dev.running
    /\ \E ok \in BOOLEAN :
         LET r == DEVICE_Stop(dev, <<>>, ok) IN
         /\ dev' = r.dev
         /\ calls' = r.calls
    /\ UNCHANGED <<fs, tmpMade, op, pc, acq, tf, blk, outcome, arg, res, radio, al, cmd, lastSet>>

-----------------------------------------------------------------------------
(* IQSTREAM_StatusParser as a function of the status word *)

P_Apply ==
    /\ op = "parser"
    /\ pc = "P_Apply"
    /\ res' = IQSTREAM_StatusParser(arg)
    /\ pc' = "P_Done"
    /\ UNCHANGED <<dev, fs, tmpMade, calls, op, acq, tf, blk, outcome, arg, radio, al, cmd, lastSet>>

P_Next ==
    /\ op = "parser"
    /\ pc = "P_Done"
    /\ \E status \in StatusWords : arg' = status
    /\ pc' = "P_Apply"
    /\ UNCHANGED <<dev, fs, tmpMade, calls, op, acq, tf, blk, outcome, res, radio, al, cmd, lastSet>>

-----------------------------------------------------------------------------
(* RSA306BRadio.connect and RSA306BRadio.align *)

DefaultAlignRetries == 3
AlignRetryArgs == (0..MaxAlignRetries) \cup {DefaultAlignRetries}
\* devices found by DEVICE_Search: none, exactly one, several
FoundArgs == 0..MaxDevices

\* DEVICE_Search: foundDevices has one entry per distinct value of devIDs,
\* whose unused slots hold 0; with no device its entry 0 is empty
DEVICE_Search(found) ==
    IF found = 0 THEN Raised("RSA_Error", "Could not find a matching Tektronix RSA device.")
    ELSE Ok({0} \cup (0..(found - 1)))

\* variant: the first device is connected when several are found
DEVICE_SearchAndConnectFirst(d, log, fail) ==
    LET log1 == Append(log, "DEVICE_Search")
        foundDevices == DEVICE_Search(d.attached)
    IN  IF fail = 1 THEN Fail("RSA_Error", "status", d, log1)
        ELSE IF foundDevices.exc # "none" THEN Fail(foundDevices.exc, foundDevices.msg, d, log1)
        ELSE Native(d, log1, "DEVICE_Connect", fail # 2, [d EXCEPT !.connected = TRUE])

\* DEVICE_SearchAndConnect; fail = k > 0 makes the k-th native call return an
\* error status
DEVICE_SearchAndConnect(d, log, fail) ==
    LET log1 == Append(log, "DEVICE_Search")
        foundDevices == DEVICE_Search(d.attached)
    IN  IF fail = 1 THEN Fail("RSA_Error", "status", d, log1)
        ELSE IF foundDevices.exc # "none" THEN Fail(foundDevices.exc, foundDevices.msg, d, log1)
        ELSE IF Cardinality(foundDevices.val) > 1
        THEN Fail("RSA_Error", "Found n devices, need exactly 1.", d, log1)
        ELSE Native(d, log1, "DEVICE_Connect", fail # 2, [d EXCEPT !.connected = TRUE])

\* connect ends without an exception
ConnectReturn == EndReturn(<<>>, 0)

\* variant: the handler logs and falls through to the statements after the try
ConnectExceptGoesOn == pc' = "K_Nomenclature" /\ UNCHANGED <<op, outcome>>

\* except Exception as e: logger.exception(e); return
ConnectExcept == ConnectReturn

\* variant: connect goes through the connection again
AlreadyAvailableNever(r) == FALSE

\* if self._is_available: return
AlreadyAvailable(r) == r.is_available

Call_connect ==
    /\ op = "idle"
    /\ outcome.kind = "none"
    /\ op' = "connect"
    /\ pc' = "K_Available"
    /\ calls' = <<>>
    /\ al' = [AlIdle EXCEPT !.caller = "connect"]
    /\ UNCHANGED <<dev, fs, tmpMade, acq, tf, blk, outcome, arg, res, radio, cmd, lastSet>>

\* if self._is_available: return; then the choice between the mock and the API
K_Available ==
    /\ pc = "K_Available"
    /\ IF AlreadyAvailable(radio)
       THEN ConnectReturn /\ UNCHANGED radio
       ELSE IF radio.mock
       THEN /\ radio' = [radio EXCEPT !.rsa = "mock"]
            /\ pc' = "K_Nomenclature"
            /\ UNCHANGED <<op, outcome>>
       ELSE /\ pc' = "K_Import"
            /\ UNCHANGED <<op, outcome, radio>>
    /\ UNCHANGED <<dev, fs, tmpMade, calls, acq, tf, blk, arg, res, al, cmd, lastSet>>

\* from scos_tekrsa.hardware.api_wrap import rsa306b_api; found: the import works
K_Import ==
    /\ pc = "K_Import"
    /\ \E found \in BOOLEAN :
         IF found
         THEN pc' = "K_New" /\ UNCHANGED <<op, outcome, radio>>
         ELSE /\ radio' = [radio EXCEPT !.is_available = FALSE]
              /\ ConnectReturn
    /\ UNCHANGED <<dev, fs, tmpMade, calls, acq, tf, blk, arg, res, al, cmd, lastSet>>

\* self.rsa = self.rsa_api.RSA306B(); an exception is logged and connect returns
K_New ==
    /\ pc = "K_New"
    /\ \E ok \in BOOLEAN :
         IF ok
         THEN /\ radio' = [radio EXCEPT !.rsa = "api"]
              /\ pc' = "K_SearchAndConnect"
              /\ UNCHANGED <<op, outcome, al>>
         ELSE ConnectExcept /\ UNCHANGED radio
                            /\ al' = [al EXCEPT !.logged = <<"Exception", "RSA306B">>]
    /\ UNCHANGED <<dev, fs, tmpMade, calls, acq, tf, blk, arg, res, cmd, lastSet>>

\* self.rsa.DEVICE_SearchAndConnect(), then self.align() with the default retries
K_SearchAndConnect ==
    /\ pc = "K_SearchAndConnect"
    /\ \E fail \in 0..2 :
         LET r == DEVICE_SearchAndConnect(dev, calls, fail) IN
         /\ dev' = r.dev
         /\ calls' = r.calls
         /\ IF r.exc = "none"
            THEN /\ al' = [al EXCEPT !.retries = DefaultAlignRetries,
                                     !.max_retries = DefaultAlignRetries]
                 /\ pc' = "L_Warmup"
                 /\ UNCHANGED <<op, outcome>>
            ELSE ConnectExcept /\ al' = [al EXCEPT !.logged = <<r.exc, r.msg>>]
    /\ UNCHANGED <<fs, tmpMade, acq, tf, blk, arg, res, radio, cmd, lastSet>>

\* a client calls align(retries) on the radio
Call_align ==
    /\ op = "idle"
    /\ outcome.kind = "none"
    /\ \E retries \in AlignRetryArgs :
         al' = [AlIdle EXCEPT !.caller = "client", !.retries = retries,
                              !.max_retries = retries]
    /\ op' = "align"
    /\ pc' = "L_Warmup"
    /\ calls' = <<>>
    /\ UNCHANGED <<dev, fs, tmpMade, acq, tf, blk, outcome, arg, res, radio, cmd, lastSet>>

\* variant: one retry more than asked for
AlignMayRetryOnceMore(retries) == retries >= 0

\* if retries > 0
AlignMayRetry(retries) == retries > 0

\* raise RuntimeError(error_message): inside connect it is caught by
\* except Exception, logged, and connect returns
AlignRaise(a) ==
    /\ al' = IF a.caller = "connect"
             THEN [a EXCEPT !.logged = <<"RuntimeError", "Max retries exceeded.">>] ELSE a
    /\ IF a.caller = "connect" THEN ConnectExcept
       ELSE EndRaise("RuntimeError", "Max retries exceeded.")

\* except Exception as e: retry after the delay, or give up
AlignExcept ==
    LET a == [al EXCEPT !.hist = Append(@, "error")] IN
    IF AlignMayRetry(al.retries)
    THEN /\ al' = [a EXCEPT !.retries = @ - 1, !.warmedUp = "unread", !.needed = "unread"]
         /\ pc' = "L_Warmup"
         /\ UNCHANGED <<op, outcome>>
    ELSE AlignRaise(a)

\* align returns: connect goes on with get_constraints
AlignReturn(a) ==
    /\ al' = [a EXCEPT !.hist = Append(@, "clean")]
    /\ IF a.caller = "connect"
       THEN pc' = "K_GetConstraints" /\ UNCHANGED <<op, outcome>>
       ELSE EndReturn(<<>>, 0)

\* if self.rsa.ALIGN_GetWarmupStatus()
L_Warmup ==
    /\ pc = "L_Warmup"
    /\ IF radio.rsa = "None"
       THEN AlignExcept /\ UNCHANGED calls       \* AttributeError
       ELSE /\ calls' = Append(calls, "ALIGN_GetWarmupStatus")
            /\ \E ok \in BOOLEAN, warmedUp \in BOOLEAN :
                 IF ~ok THEN AlignExcept
                 ELSE IF warmedUp
                 THEN /\ al' = [al EXCEPT !.warmedUp = "true"]
                      /\ pc' = "L_Needed"
                      /\ UNCHANGED <<op, outcome>>
                 ELSE AlignReturn([al EXCEPT !.warmedUp = "false"])
    /\ UNCHANGED <<dev, fs, tmpMade, acq, tf, blk, arg, res, radio, cmd, lastSet>>

\* variant: alignment is run whenever the device is warmed up
AlignmentDueAlways(needed) == TRUE

\* if self.rsa.ALIGN_GetAlignmentNeeded()
AlignmentDue(needed) == needed

L_Needed ==
    /\ pc = "L_Needed"
    /\ calls' = Append(calls, "ALIGN_GetAlignmentNeeded")
    /\ \E ok \in BOOLEAN, needed \in BOOLEAN :
         IF ~ok THEN AlignExcept
         ELSE IF AlignmentDue(needed)
         THEN /\ al' = [al EXCEPT !.needed = IF needed THEN "true" ELSE "false"]
              /\ pc' = "L_Run"
              /\ UNCHANGED <<op, outcome>>
         ELSE AlignReturn([al EXCEPT !.needed = IF needed THEN "true" ELSE "false"])
    /\ UNCHANGED <<dev, fs, tmpMade, acq, tf, blk, arg, res, radio, cmd, lastSet>>

\* self.rsa.ALIGN_RunAlignment(); return
L_Run ==
    /\ pc = "L_Run"
    /\ calls' = Append(calls, "ALIGN_RunAlignment")
    /\ \E ok \in BOOLEAN :
         IF ~ok THEN AlignExcept
         ELSE AlignReturn([al EXCEPT !.runs = @ + 1])
    /\ UNCHANGED <<dev, fs, tmpMade, acq, tf, blk, arg, res, radio, cmd, lastSet>>

align == L_Warmup \/ L_Needed \/ L_Run

\* self.get_constraints(): the two limits are queried and stored one after the
\* other; an exception is logged and connect returns
K_GetConstraints ==
    /\ pc = "K_GetConstraints"
    /\ \E fail \in 0..2 :
         /\ calls' = calls \o SubSeq(<<"CONFIG_GetMinCenterFreq", "CONFIG_GetMaxCenterFreq">>,
                                     1, IF fail = 0 THEN 2 ELSE fail)
         /\ radio' = [radio EXCEPT
                         !.min_frequency = IF fail = 1 THEN @ ELSE U * MinCenterFreq,
                         !.max_frequency = IF fail = 0 THEN U * MaxCenterFreq ELSE @]
         /\ IF fail = 0 THEN pc' = "K_Nomenclature" /\ UNCHANGED <<op, outcome, al>>
            ELSE ConnectExcept /\ al' = [al EXCEPT !.logged = <<"RSA_Error", "status">>]
    /\ UNCHANGED <<dev, fs, tmpMade, acq, tf, blk, arg, res, cmd, lastSet>>

\* logger.debug(self.rsa.DEVICE_GetNomenclature()), outside the try block
K_Nomenclature ==
    /\ pc = "K_Nomenclature"
    /\ calls' = Append(calls, "DEVICE_GetNomenclature")
    /\ \E ok \in BOOLEAN :
         IF ok THEN pc' = "K_SetAvailable" /\ UNCHANGED <<op, outcome>>
         ELSE EndRaise("RSA_Error", "status")
    /\ UNCHANGED <<dev, fs, tmpMade, acq, tf, blk, arg, res, radio, al, cmd, lastSet>>

\* self._is_available = True
K_SetAvailable ==
    /\ pc = "K_SetAvailable"
    /\ radio' = [radio EXCEPT !.is_available = TRUE]
    /\ ConnectReturn
    /\ UNCHANGED <<dev, fs, tmpMade, calls, acq, tf, blk, arg, res, al, cmd, lastSet>>

connect ==
    \/ Call_connect \/ K_Available \/ K_Import \/ K_New \/ K_SearchAndConnect
    \/ K_GetConstraints \/ K_Nomenclature \/ K_SetAvailable

-----------------------------------------------------------------------------
(* The command layer called directly by a client, one command at a time *)

\* arguments around a declared range lo..hi: the bounds, their neighbours on
\* both sides, a value inside, and values of other types
WrongTypeArgs == { PyStr("abc"), PyBool(TRUE) }
AroundRange(lo, hi, mid) ==
    { PyInt(lo), PyInt(hi), PyInt(mid), PyFloat(U * mid + 4),
      PyInt(lo - 1), PyInt(hi + 1), PyFloat(U * lo - 1), PyFloat(U * hi + 1) } \cup WrongTypeArgs

CfArgs          == CenterFreqArgs \cup { PyInt(MinCenterFreq - 1), PyBool(FALSE) }
LevelArgs       == AroundRange(RefLevelMin, RefLevelMax, -17)
TrigPosArgs     == AroundRange(TrigPosMin, TrigPosMax, 20)
AudioModeArgs   == AroundRange(AudioModeMin, AudioModeMax, 2)
                       \cup { PyFloat(U * 2), PyFloat(U * AudioModeMax), PyFloat(U * AudioModeMax + 4) }
VolumeArgs      == { PyFloat(-1), PyFloat(0), PyFloat(1), PyFloat(3), PyFloat(6), PyFloat(U),
                     PyFloat(U + 1), PyInt(VolumeMin), PyInt(VolumeMax), PyInt(VolumeMax + 1) }
                       \cup WrongTypeArgs
FreqOffsetArgs  == AroundRange(-MaxFreqOffset, MaxFreqOffset, 437)
AcqBwArgs       == BandwidthArgs \cup { PyFloat(MinAcqBandwidth - 1), PyFloat(MaxAcqBandwidth) }
                       \cup WrongTypeArgs
FileLengthArgs  == DurationArgs \cup { PyInt(MinFileLength) } \cup WrongTypeArgs
SuffixArgs      == { PyInt(MinSuffixCtl - 1), PyInt(MinSuffixCtl), PyInt(-1), PyInt(0), PyFloat(4) }
                       \cup WrongTypeArgs
IqBwArgs        == IQBandwidthArgs \cup { PyInt(MinIQBandwidth - 1) } \cup WrongTypeArgs
RecLenArgs      == RecordLengthArgs \cup WrongTypeArgs
                       \cup { PyFloat(U * (RecLenPerBW * MaxIQBandwidth + 1)) }  \* whole, above every maximum
BoolArgs        == { PyBool(TRUE), PyBool(FALSE), PyInt(1), PyStr("abc") }
BufSizeArgs     == { PyInt(0), PyInt(1), PyFloat(U), PyFloat(4), PyStr("abc") }
BaseArgs        == { PyStr("base"), PyInt(0) }
\* every token, one token held by another string object, a string outside, a number
EnumArgs(tuple) == { PyStr(x) : x \in Range(tuple) } \cup { PyStrCopy(tuple[Len(tuple)]),
                                                            PyStr("abc"), PyInt(0) }
FreqRefArgs     == EnumArgs(FREQREF_SOURCE) \cup { PyStrCopy("GNSS") }

\* the commands of one family act on the device while every setting outside
\* the family is as preset
OneFamily(fields) == \A f \in (DOMAIN dev) \ fields : dev[f] = Preset[f]

ValOf(r) == IF r.exc = "none" THEN r.val ELSE NoVal
MsgOf(r) == IF r.exc = "none" THEN "" ELSE r.msg

\* a setter called with x (and y) ended as r
SetCommand(name, fields, x, y, r) ==
    /\ op = "command"
    /\ OneFamily(fields)
    /\ dev' = r.dev
    /\ calls' = r.calls
    /\ cmd' = [ name |-> name, arg |-> x, arg2 |-> y, exc |-> r.exc, msg |-> r.msg,
                val |-> NoVal, before |-> dev ]
    /\ lastSet' = cmd'
    /\ UNCHANGED <<fs, tmpMade, op, pc, acq, tf, blk, outcome, arg, res, radio, al>>

\* a getter ended as r
GetCommand(name, fields, r) ==
    /\ op = "command"
    /\ OneFamily(fields)
    /\ calls' = <<name>>
    /\ cmd' = [ name |-> name, arg |-> NoVal, arg2 |-> NoVal, exc |-> r.exc, msg |-> MsgOf(r),
                val |-> ValOf(r), before |-> dev ]
    /\ UNCHANGED <<dev, lastSet, fs, tmpMade, op, pc, acq, tf, blk, outcome, arg, res, radio, al>>

Cmd_CONFIG_SetCenterFreq ==
    \E x \in CfArgs, fail \in 0..3 :
        SetCommand("CONFIG_SetCenterFreq", {"cf"}, x, NoVal, CONFIG_SetCenterFreq(dev, <<>>, x, fail))

Cmd_CONFIG_SetReferenceLevel ==
    \E x \in LevelArgs, fail \in 0..1 :
        SetCommand("CONFIG_SetReferenceLevel", {"ref"}, x, NoVal,
                   CONFIG_SetReferenceLevel(dev, <<>>, x, fail))

TRIG_SetIFPowerTriggerLevel ==
    \E level \in LevelArgs, fail \in 0..1 :
        SetCommand("TRIG_SetIFPowerTriggerLevel", {"ifLevel"}, level, NoVal,
                   RangeSetter(dev, <<>>, check_num(level), <<>>, U * RefLevelMin, U * RefLevelMax,
                               "TRIG_SetIFPowerTriggerLevel", "ifLevel", fail))

TRIG_SetTriggerPositionPercent ==
    \E trigPosPercent \in TrigPosArgs, fail \in 0..1 :
        SetCommand("TRIG_SetTriggerPositionPercent", {"trigPos"}, trigPosPercent, NoVal,
                   RangeSetter(dev, <<>>, check_num(trigPosPercent), <<>>,
                               U * TrigPosMin, U * TrigPosMax,
                               "TRIG_SetTriggerPositionPercent", "trigPos", fail))

AUDIO_SetMode ==
    \E mode \in AudioModeArgs, fail \in 0..1 :
        SetCommand("AUDIO_SetMode", {"audioMode"}, mode, NoVal,
                   RangeSetter(dev, <<>>, check_int(mode), <<>>, U * AudioModeMin, U * AudioModeMax,
                               "AUDIO_SetMode", "audioMode", fail))

\* the value reaches the device as c_float(volume)
AUDIO_SetVolume ==
    \E volume \in VolumeArgs, fail \in 0..1 :
        LET r == RangeSetter(dev, <<>>, check_num(volume), <<>>, U * VolumeMin, U * VolumeMax,
                             "AUDIO_SetVolume", "audioVolume", fail)
        IN  SetCommand("AUDIO_SetVolume", {"audioVolume"}, volume, NoVal,
                       IF r.exc = "none" THEN [r EXCEPT !.dev.audioVolume = c_float(@)] ELSE r)

AUDIO_SetFrequencyOffset ==
    \E freqOffsetHz \in FreqOffsetArgs, fail \in 0..1 :
        SetCommand("AUDIO_SetFrequencyOffset", {"audioOffset"}, freqOffsetHz, NoVal,
                   RangeSetter(dev, <<>>, check_num(freqOffsetHz), <<>>,
                               U * (-MaxFreqOffset), U * MaxFreqOffset,
                               "AUDIO_SetFrequencyOffset", "audioOffset", fail))

Cmd_IQSTREAM_SetAcqBandwidth ==
    \E x \in AcqBwArgs, fail \in 0..3 :
        SetCommand("IQSTREAM_SetAcqBandwidth", {"bw"}, x, NoVal,
                   IQSTREAM_SetAcqBandwidth(dev, <<>>, x, fail))

Cmd_IQSTREAM_SetDiskFileLength ==
    \E x \in FileLengthArgs, fail \in 0..1 :
        SetCommand("IQSTREAM_SetDiskFileLength", {"fileLen"}, x, NoVal,
                   IQSTREAM_SetDiskFileLength(dev, <<>>, x, fail))

Cmd_IQSTREAM_SetDiskFilenameSuffix ==
    \E x \in SuffixArgs, fail \in 0..1 :
        SetCommand("IQSTREAM_SetDiskFilenameSuffix", {"suffix"}, x, NoVal,
                   IQSTREAM_SetDiskFilenameSuffix(dev, <<>>, x, fail))

Cmd_IQSTREAM_SetDiskFilenameBase ==
    \E x \in BaseArgs, ok \in BOOLEAN :
        SetCommand("IQSTREAM_SetDiskFilenameBase", {"fname"}, x, NoVal,
                   IQSTREAM_SetDiskFilenameBase(dev, <<>>, x, 1, ok))

IQSTREAM_SetIQDataBufferSize ==
    \E reqSize \in BufSizeArgs, ok \in BOOLEAN :
        SetCommand("IQSTREAM_SetIQDataBufferSize", {"bufSize"}, reqSize, NoVal,
                   TypeSetter(dev, <<>>, check_int(reqSize), "IQSTREAM_SetIQDataBufferSize",
                              "bufSize", reqSize.v, ok))

Cmd_IQBLK_SetIQBandwidth ==
    \E x \in IqBwArgs, fail \in 0..3 :
        SetCommand("IQBLK_SetIQBandwidth", {"iqbw", "recLen"}, x, NoVal,
                   IQBLK_SetIQBandwidth(dev, <<>>, x, fail))

Cmd_IQBLK_SetIQRecordLength ==
    \E x \in RecLenArgs, fail \in 0..2 :
        SetCommand("IQBLK_SetIQRecordLength", {"iqbw", "recLen"}, x, NoVal,
                   IQBLK_SetIQRecordLength(dev, <<>>, x, fail))

AUDIO_SetMute ==
    \E mute \in BoolArgs, ok \in BOOLEAN :
        SetCommand("AUDIO_SetMute", {"mute"}, mute, NoVal,
                   TypeSetter(dev, <<>>, check_bool(mute), "AUDIO_SetMute", "mute", mute.v, ok))

CONFIG_SetExternalRefEnable ==
    \E exRefEn \in BoolArgs, ok \in BOOLEAN :
        SetCommand("CONFIG_SetExternalRefEnable", {"extRefEn"}, exRefEn, NoVal,
                   TypeSetter(dev, <<>>, check_bool(exRefEn), "CONFIG_SetExternalRefEnable",
                              "extRefEn", exRefEn.v, ok))

SPECTRUM_SetEnable ==
    \E enable \in BoolArgs, ok \in BOOLEAN :
        SetCommand("SPECTRUM_SetEnable", {"spectrumEn"}, enable, NoVal,
                   TypeSetter(dev, <<>>, check_bool(enable), "SPECTRUM_SetEnable",
                              "spectrumEn", enable.v, ok))

TRIG_SetTriggerMode ==
    \E mode \in EnumArgs(TRIGGER_MODE), ok \in BOOLEAN :
        SetCommand("TRIG_SetTriggerMode", {"trigMode"}, mode, NoVal,
                   EnumSetter(dev, <<>>, mode, TRIGGER_MODE, "TRIG_SetTriggerMode", "trigMode",
                              "Invalid trigger mode input string.", ok))

TRIG_SetTriggerSource ==
    \E source \in EnumArgs(TRIGGER_SOURCE), ok \in BOOLEAN :
        SetCommand("TRIG_SetTriggerSource", {"trigSource"}, source, NoVal,
                   EnumSetter(dev, <<>>, source, TRIGGER_SOURCE, "TRIG_SetTriggerSource",
                              "trigSource", "Invalid trigger source input string.", ok))

TRIG_SetTriggerTransition ==
    \E transition \in EnumArgs(TRIGGER_TRANSITION), ok \in BOOLEAN :
        SetCommand("TRIG_SetTriggerTransition", {"trigTransition"}, transition, NoVal,
                   EnumSetter(dev, <<>>, transition, TRIGGER_TRANSITION,
                              "TRIG_SetTriggerTransition", "trigTransition",
                              "Invalid trigger transition mode input string.", ok))

\* held: the source the device ends up with, one of FreqRefHeld
CONFIG_SetFrequencyReferenceSource ==
    \E src \in FreqRefArgs, ok \in BOOLEAN :
        LET c      == check_string(src)
            member == src.s \in Range(FREQREF_SOURCE)
        IN  \E held \in (IF member THEN FreqRefHeld(IndexOf(FREQREF_SOURCE, src.s)) ELSE {0}) :
                SetCommand("CONFIG_SetFrequencyReferenceSource", {"freqRef"}, src, NoVal,
                    IF c.exc # "none" THEN Fail(c.exc, c.msg, dev, <<>>)
                    ELSE IF member
                    THEN IF Is(src, "GNSS")
                         THEN Fail("RSA_Error", "RSA 306B does not support GNSS reference.",
                                   dev, <<>>)
                         ELSE Native(dev, <<>>, "CONFIG_SetFrequencyReferenceSource", ok,
                                     [dev EXCEPT !.freqRef = held])
                    ELSE Fail("RSA_Error", "Input does not match a valid setting.", dev, <<>>))

Cmd_IQSTREAM_SetOutputConfiguration ==
    \E x \in EnumArgs(IQSOUTDEST), y \in EnumArgs(IQSOUTDTYPE), ok \in BOOLEAN :
        SetCommand("IQSTREAM_SetOutputConfiguration", {"outCfg"}, x, y,
                   IQSTREAM_SetOutputConfiguration(dev, <<>>, x, y, ok))

CONFIG_GetCenterFreq ==
    \E ok \in BOOLEAN : GetCommand("CONFIG_GetCenterFreq", {"cf"}, NumGetter(ok, dev.cf))

CONFIG_GetReferenceLevel ==
    \E ok \in BOOLEAN : GetCommand("CONFIG_GetReferenceLevel", {"ref"}, NumGetter(ok, dev.ref))

TRIG_GetIFPowerTriggerLevel ==
    \E ok \in BOOLEAN :
        GetCommand("TRIG_GetIFPowerTriggerLevel", {"ifLevel"}, NumGetter(ok, dev.ifLevel))

TRIG_GetTriggerPositionPercent ==
    \E ok \in BOOLEAN :
        GetCommand("TRIG_GetTriggerPositionPercent", {"trigPos"}, NumGetter(ok, dev.trigPos))

\* variant: the mode the device reports is returned unchecked
ModeNotSetNever(mode) == FALSE

\* if mode.value > 5 or mode.value < 0
ModeNotSet(mode) == mode > U * AudioModeMax \/ mode < U * AudioModeMin

AUDIO_GetMode ==
    \E ok \in BOOLEAN :
        GetCommand("AUDIO_GetMode", {"audioMode"},
            IF ~ok THEN Raised("RSA_Error", "status")
            ELSE IF ModeNotSet(dev.audioMode)
            THEN Raised("RSA_Error", "Audio demodulation mode has not yet been set.")
            ELSE Ok([PyFloat(dev.audioMode) EXCEPT !.t = "int"]))

AUDIO_GetVolume ==
    \E ok \in BOOLEAN : GetCommand("AUDIO_GetVolume", {"audioVolume"}, NumGetter(ok, dev.audioVolume))

TRIG_GetTriggerMode ==
    \E ok \in BOOLEAN :
        GetCommand("TRIG_GetTriggerMode", {"trigMode"}, EnumGetter(ok, TRIGGER_MODE, dev.trigMode))

TRIG_GetTriggerSource ==
    \E ok \in BOOLEAN :
        GetCommand("TRIG_GetTriggerSource", {"trigSource"},
                   EnumGetter(ok, TRIGGER_SOURCE, dev.trigSource))

TRIG_GetTriggerTransition ==
    \E ok \in BOOLEAN :
        GetCommand("TRIG_GetTriggerTransition", {"trigTransition"},
                   EnumGetter(ok, TRIGGER_TRANSITION, dev.trigTransition))

CONFIG_GetFrequencyReferenceSource ==
    \E ok \in BOOLEAN :
        GetCommand("CONFIG_GetFrequencyReferenceSource", {"freqRef"},
                   EnumGetter(ok, FREQREF_SOURCE, dev.freqRef))

Cmd_DEVICE_Run ==
    \E ok \in BOOLEAN :
        SetCommand("DEVICE_Run", {"running"}, NoVal, NoVal, DEVICE_Run(dev, <<>>, ok))

Cmd_DEVICE_Stop ==
    \E ok \in BOOLEAN :
        SetCommand("DEVICE_Stop", {"running"}, NoVal, NoVal, DEVICE_Stop(dev, <<>>, ok))

DEVICE_GetEnable ==
    \E ok \in BOOLEAN :
        GetCommand("DEVICE_GetEnable", {"running"},
                   IF ok THEN Ok(PyBool(dev.running)) ELSE Raised("RSA_Error", "status"))

NextCommand ==
    \/ Cmd_CONFIG_SetCenterFreq \/ CONFIG_GetCenterFreq
    \/ Cmd_CONFIG_SetReferenceLevel \/ CONFIG_GetReferenceLevel
    \/ TRIG_SetIFPowerTriggerLevel \/ TRIG_GetIFPowerTriggerLevel
    \/ TRIG_SetTriggerPositionPercent \/ TRIG_GetTriggerPositionPercent
    \/ AUDIO_SetMode \/ AUDIO_GetMode
    \/ AUDIO_SetVolume \/ AUDIO_GetVolume
    \/ TRIG_SetTriggerMode \/ TRIG_GetTriggerMode
    \/ TRIG_SetTriggerSource \/ TRIG_GetTriggerSource
    \/ TRIG_SetTriggerTransition \/ TRIG_GetTriggerTransition
    \/ CONFIG_SetFrequencyReferenceSource \/ CONFIG_GetFrequencyReferenceSource
    \/ AUDIO_SetFrequencyOffset \/ AUDIO_SetMute \/ CONFIG_SetExternalRefEnable
    \/ SPECTRUM_SetEnable \/ IQSTREAM_SetIQDataBufferSize
    \/ Cmd_IQSTREAM_SetAcqBandwidth \/ Cmd_IQSTREAM_SetDiskFileLength
    \/ Cmd_IQSTREAM_SetDiskFilenameSuffix \/ Cmd_IQSTREAM_SetDiskFilenameBase
    \/ Cmd_IQBLK_SetIQBandwidth \/ Cmd_IQBLK_SetIQRecordLength
    \/ Cmd_IQSTREAM_SetOutputConfiguration
    \/ Cmd_DEVICE_Run \/ Cmd_DEVICE_Stop \/ DEVICE_GetEnable

-----------------------------------------------------------------------------
(* RSA306BRadio.sample_rate: the property and its setter *)

\* every allowed rate, one above the greatest, and the rates of the device
SampleRateArgs ==
    { PyFloat(ALLOWED_SR[i]) : i \in 1..Len(ALLOWED_SR) }
        \cup { PyFloat(DeviceSampleRates[i]) : i \in 1..Len(DeviceSampleRates) }
        \cup { PyFloat(ALLOWED_SR[1] + U), PyFloat(U) }

\* the setter: limit, membership, bandwidth of the rate, native set, and the
\* query made for the log line. fail = 4: that query fails
SampleRateSetter(d, log, sample_rate, fail) ==
    IF sample_rate.v > ALLOWED_SR[1]
    THEN Fail("Exception", "Sample rate too high.", d, log)
    ELSE IF sample_rate.v \notin Range(ALLOWED_SR)
    THEN Fail("ValueError", "Requested sample rate not in allowed sample rates.", d, log)
    ELSE LET bw == sr_bw_map(sample_rate.v)
             r  == IQSTREAM_SetAcqBandwidth(d, log, PyFloat(bw.val), fail)
         IN  IF r.exc # "none" THEN r
             ELSE Native(r.dev, r.calls, "IQSTREAM_GetAcqParameters", fail # 4, r.dev)

sample_rate_setter ==
    \E x \in SampleRateArgs, fail \in 0..4 :
        SetCommand("sample_rate.setter", {"bw"}, x, NoVal, SampleRateSetter(dev, <<>>, x, fail))

\* return self.rsa.IQSTREAM_GetAcqParameters()[1]
sample_rate_getter ==
    \E ok \in BOOLEAN :
        GetCommand("sample_rate", {"bw"}, NumGetter(ok, DeviceSampleRate(dev.bw)))

\* self.sr_bw_map[self.sample_rate], as evaluated by acquire_time_domain_samples
sample_rate_bandwidth ==
    \E ok \in BOOLEAN :
        GetCommand("sr_bw_map", {"bw"},
                   IF ~ok THEN Raised("RSA_Error", "status")
                   ELSE LET bw == sr_bw_map(DeviceSampleRate(dev.bw)) IN
                        IF bw.exc = "none" THEN Ok(PyFloat(bw.val)) ELSE bw)

-----------------------------------------------------------------------------
(* The deinterleaving of IQSTREAM_Tempfile as a function of the flat buffer *)

SampleValues == {0, 1}
RECURSIVE SeqsUpTo(_)
SeqsUpTo(n) == IF n = 0 THEN {<<>>}
               ELSE SeqsUpTo(n - 1) \cup [1..n -> SampleValues]
Buffers == SeqsUpTo(MaxBuf)

D_Apply ==
    /\ op = "deinterleave"
    /\ pc = "D_Apply"
    /\ LET r == Deinterleave(arg) IN
       res' = [ exc |-> r.exc,
                i   |-> DeinterleaveI(arg),
                q   |-> IF Len(arg) = 0 THEN <<>> ELSE DeinterleaveQ(arg),
                iqData |-> IF r.exc = "none" THEN r.val ELSE <<>> ]
    /\ pc' = "D_Done"
    /\ UNCHANGED <<dev, fs, tmpMade, calls, op, acq, tf, blk, outcome, arg, radio, al, cmd, lastSet>>

D_Next ==
    /\ op = "deinterleave"
    /\ pc = "D_Done"
    /\ \E d \in Buffers : arg' = d
    /\ pc' = "D_Apply"
    /\ UNCHANGED <<dev, fs, tmpMade, calls, op, acq, tf, blk, outcome, res, radio, al, cmd, lastSet>>

-----------------------------------------------------------------------------
(* recompute_calibration_data as a function of the two calibration lookups *)

None == -1                       \* Python's None among the calibration values
CalValues == 0..MaxCal
SampleRates == {MaxCal + 1, MaxCal + 2}

\* the calibration defaults: the fields the radio tests with "is None" are
\* unknown, the remaining ones are numbers
DEFAULT_SIGAN_CALIBRATION ==
    [ gain_sigan |-> None, enbw_sigan |-> None,
      noise_figure_sigan |-> 0, 1db_compression_sigan |-> 100 ]

DEFAULT_SENSOR_CALIBRATION ==
    [ gain_sensor |-> None, enbw_sensor |-> None,
      noise_figure_sensor |-> None, 1db_compression_sensor |-> None,
      gain_preselector |-> 0, noise_figure_preselector |-> 0,
      1db_compression_preselector |-> 100 ]

SiganKeys == {"gain_sigan", "enbw_sigan", "noise_figure_sigan", "1db_compression_sigan"}
SensorKeys == {"gain_sensor", "enbw_sensor", "noise_figure_sensor",
               "1db_compression_sensor", "gain_preselector"}

\* a calibration object: not loaded (None), or one whose lookup supplies the
\* fields of dict
NotLoaded == [loaded |-> FALSE, dict |-> <<>>]
Calibrations(keys) ==
    {NotLoaded} \cup
    {[loaded |-> TRUE, dict |-> f] : f \in UNION {[S -> CalValues] : S \in SUBSET keys}}

\* dict.update
Update(d, u) == [k \in DOMAIN d \cup DOMAIN u |-> IF k \in DOMAIN u THEN u[k] ELSE d[k]]

\* DEFAULT.copy(), updated with get_calibration_dict(...) of a loaded calibration
CalibrationData(default, calibration) ==
    IF calibration.loaded THEN Update(default, calibration.dict) ELSE default

\* variant: the sigan data is left as the lookup gave it
SiganDefaultsSkipped(sigan0, sample_rate) == sigan0

\* "Catch any defaulting calibration values for the sigan"
SiganDefaults(sigan0, sample_rate) ==
    LET s1 == IF sigan0.gain_sigan = None
              THEN [sigan0 EXCEPT !.gain_sigan = 0] ELSE sigan0
    IN IF s1.enbw_sigan = None THEN [s1 EXCEPT !.enbw_sigan = sample_rate] ELSE s1

\* "Catch any defaulting calibration values for the sensor"
SensorDefaults(sensor0, sigan) ==
    LET s1 == IF sensor0.gain_sensor = None
              THEN [sensor0 EXCEPT !.gain_sensor = sigan.gain_sigan] ELSE sensor0
        s2 == IF s1.enbw_sensor = None
              THEN [s1 EXCEPT !.enbw_sensor = sigan.enbw_sigan] ELSE s1
        s3 == IF s2.noise_figure_sensor = None
              THEN [s2 EXCEPT !.noise_figure_sensor = sigan.noise_figure_sigan] ELSE s2
    IN IF s3.1db_compression_sensor # None THEN [exc |-> "none", data |-> s3]
       ELSE IF s3.gain_preselector = None \/ sigan.1db_compression_sigan = None
       THEN [exc |-> "TypeError", data |-> s3]
       ELSE [exc |-> "none",
             data |-> [s3 EXCEPT !.1db_compression_sensor =
                           s3.gain_preselector + sigan.1db_compression_sigan]]

recompute_calibration_data(sensor_calibration, sigan_calibration, sample_rate) ==
    LET sensor0 == CalibrationData(DEFAULT_SENSOR_CALIBRATION, sensor_calibration)
        sigan0 == CalibrationData(DEFAULT_SIGAN_CALIBRATION, sigan_calibration)
        sigan == SiganDefaults(sigan0, sample_rate)
        r == SensorDefaults(sensor0, sigan)
    IN [ exc |-> r.exc,
         sensor_calibration_data |-> r.data,
         sigan_calibration_data |-> sigan ]

R_Apply ==
    /\ op = "calibration"
    /\ pc = "R_Apply"
    /\ res' = recompute_calibration_data(arg.sensor_calibration, arg.sigan_calibration,
                                         arg.sample_rate)
    /\ pc' = "R_Done"
    /\ UNCHANGED <<dev, fs, tmpMade, calls, op, acq, tf, blk, outcome, arg, radio, al, cmd, lastSet>>

\* the radio is set to another sample rate before the next acquisition
R_Retune ==
    /\ op = "calibration"
    /\ pc = "R_Done"
    /\ \E sr \in SampleRates : arg' = [arg EXCEPT !.sample_rate = sr]
    /\ pc' = "R_Apply"
    /\ UNCHANGED <<dev, fs, tmpMade, calls, op, acq, tf, blk, outcome, res, radio, al, cmd, lastSet>>

-----------------------------------------------------------------------------
(* err_check as a function of the status code *)

E_Apply ==
    /\ op = "status"
    /\ pc = "E_Apply"
    /\ res' = err_check(arg)
    /\ pc' = "E_Done"
    /\ UNCHANGED <<dev, fs, tmpMade, calls, op, acq, tf, blk, outcome, arg, radio, al, cmd, lastSet>>

E_Next ==
    /\ op = "status"
    /\ pc = "E_Done"
    /\ \E rs \in StatusCodes : arg' = rs
    /\ pc' = "E_Apply"
    /\ UNCHANGED <<dev, fs, tmpMade, calls, op, acq, tf, blk, outcome, res, radio, al, cmd, lastSet>>

-----------------------------------------------------------------------------
(* Specifications *)

StartBandwidths == {ALLOWED_BW[13], ALLOWED_BW[6]}

Init ==
    /\ dev \in {DevInit(r, bw) : r \in BOOLEAN, bw \in StartBandwidths}
    /\ fs = {}
    /\ tmpMade = 0
    /\ calls = <<>>
    /\ op = "idle"
    /\ pc = "idle"
    /\ acq = AcqIdle
    /\ tf = TfIdle
    /\ blk = BlkIdle
    /\ outcome = NoOutcome
    /\ arg = 0
    /\ res = Ok(0)
    /\ radio = [RadioInit(FALSE) EXCEPT !.is_available = TRUE, !.rsa = "api"]
    /\ al = AlIdle
    /\ cmd = NoCmd
    /\ lastSet = NoCmd

\* the radio acquiring samples through the streaming protocol
Next == acquire_time_domain_samples \/ IQSTREAM_Tempfile \/ Collect
Spec == Init /\ [][Next]_vars
\* the statements of a call are executed one after the other by one thread: a
\* call that can take a step takes it
SpecLive == Spec /\ WF_vars(acquire_time_domain_samples \/ IQSTREAM_Tempfile)

\* a monitor reading the health check of a radio with or without a device
InitHealth ==
    /\ dev \in {DevInit(r, bw) : r \in BOOLEAN, bw \in StartBandwidths}
    /\ fs = {}
    /\ tmpMade = 0
    /\ calls = <<>>
    /\ op = "idle"
    /\ pc = "idle"
    /\ acq = AcqIdle
    /\ tf = TfIdle
    /\ blk = BlkIdle
    /\ outcome = NoOutcome
    /\ arg = 0
    /\ res = Ok(0)
    /\ radio \in { RadioInit(FALSE),
                   [RadioInit(FALSE) EXCEPT !.rsa = "api", !.is_available = TRUE,
                                            !.min_frequency = U * MinCenterFreq,
                                            !.max_frequency = U * MaxCenterFreq] }
    /\ al = AlIdle
    /\ cmd = NoCmd
    /\ lastSet = NoCmd

NextHealth == healthy \/ A_Capture \/ A_Check \/ IQSTREAM_Tempfile \/ Collect
SpecHealth == InitHealth /\ [][NextHealth]_vars

\* clients calling the streaming protocol directly
NextStream == Call_IQSTREAM_Tempfile \/ IQSTREAM_Tempfile \/ Collect
SpecStream == Init /\ [][NextStream]_vars

\* clients of the IQ block helpers
NextBlock == IQBLK_Configure \/ IQBLK_Acquire \/ Call_DEVICE_Stop \/ Collect
SpecBlock == Init /\ [][NextBlock]_vars
\* the statements of IQBLK_Acquire are executed one after the other without
\* pause: a call that can take a step takes it
SpecBlockLive == SpecBlock /\ WF_vars(IQBLK_Acquire)

\* clients using the streaming protocol and the block helpers on one device
NextProtocols == NextStream \/ NextBlock
SpecProtocols == Init /\ [][NextProtocols]_vars

\* the status parser applied to status words
InitParser ==
    /\ dev = DevInit(FALSE, ALLOWED_BW[13])
    /\ fs = {}
    /\ tmpMade = 0
    /\ calls = <<>>
    /\ op = "parser"
    /\ pc = "P_Apply"
    /\ acq = AcqIdle
    /\ tf = TfIdle
    /\ blk = BlkIdle
    /\ outcome = NoOutcome
    /\ arg \in StatusWords
    /\ res = Ok(0)
    /\ radio = RadioInit(FALSE)
    /\ al = AlIdle
    /\ cmd = NoCmd
    /\ lastSet = NoCmd
NextParser == P_Apply \/ P_Next
SpecParser == InitParser /\ [][NextParser]_vars

\* err_check applied to the status codes
InitStatus ==
    /\ dev = DevInit(FALSE, ALLOWED_BW[13])
    /\ fs = {}
    /\ tmpMade = 0
    /\ calls = <<>>
    /\ op = "status"
    /\ pc = "E_Apply"
    /\ acq = AcqIdle
    /\ tf = TfIdle
    /\ blk = BlkIdle
    /\ outcome = NoOutcome
    /\ arg \in StatusCodes
    /\ res = Ok(0)
    /\ radio = RadioInit(FALSE)
    /\ al = AlIdle
    /\ cmd = NoCmd
    /\ lastSet = NoCmd
NextStatus == E_Apply \/ E_Next
SpecStatus == InitStatus /\ [][NextStatus]_vars

\* a radio object being connected, and clients calling align on it
InitConnect ==
    /\ dev \in {[DevInit(FALSE, ALLOWED_BW[13]) EXCEPT !.connected = FALSE, !.attached = n] :
                  n \in FoundArgs}
    /\ fs = {}
    /\ tmpMade = 0
    /\ calls = <<>>
    /\ op = "idle"
    /\ pc = "idle"
    /\ acq = AcqIdle
    /\ tf = TfIdle
    /\ blk = BlkIdle
    /\ outcome = NoOutcome
    /\ arg = 0
    /\ res = Ok(0)
    /\ radio \in {RadioInit(mock) : mock \in BOOLEAN}
    /\ al = AlIdle
    /\ cmd = NoCmd
    /\ lastSet = NoCmd
NextConnect == connect \/ Call_align \/ align \/ Collect
SpecConnect == InitConnect /\ [][NextConnect]_vars

\* the deinterleaving applied to one buffer after the other
InitDeinterleave ==
    /\ dev = Preset
    /\ fs = {}
    /\ tmpMade = 0
    /\ calls = <<>>
    /\ op = "deinterleave"
    /\ pc = "D_Apply"
    /\ acq = AcqIdle
    /\ tf = TfIdle
    /\ blk = BlkIdle
    /\ outcome = NoOutcome
    /\ arg \in Buffers
    /\ res = Ok(0)
    /\ radio = RadioInit(FALSE)
    /\ al = AlIdle
    /\ cmd = NoCmd
    /\ lastSet = NoCmd
NextDeinterleave == D_Apply \/ D_Next
SpecDeinterleave == InitDeinterleave /\ [][NextDeinterleave]_vars

\* a radio with any two calibrations, about to acquire
InitCalibration ==
    /\ dev = Preset
    /\ fs = {}
    /\ tmpMade = 0
    /\ calls = <<>>
    /\ op = "calibration"
    /\ pc = "R_Apply"
    /\ acq = AcqIdle
    /\ tf = TfIdle
    /\ blk = BlkIdle
    /\ outcome = NoOutcome
    /\ arg \in [ sensor_calibration : Calibrations(SensorKeys),
                 sigan_calibration : Calibrations(SiganKeys),
                 sample_rate : SampleRates ]
    /\ res = Ok(0)
    /\ radio = RadioInit(FALSE)
    /\ al = AlIdle
    /\ cmd = NoCmd
    /\ lastSet = NoCmd

NextCalibration == R_Apply \/ R_Retune
SpecCalibration == InitCalibration /\ [][NextCalibration]_vars

\* a client calling the setters and getters of the command layer
InitCommand ==
    /\ dev \in {Preset, [Preset EXCEPT !.audioMode = U * (AudioModeMax + 1)]}
    /\ fs = {}
    /\ tmpMade = 0
    /\ calls = <<>>
    /\ op = "command"
    /\ pc = "idle"
    /\ acq = AcqIdle
    /\ tf = TfIdle
    /\ blk = BlkIdle
    /\ outcome = NoOutcome
    /\ arg = 0
    /\ res = Ok(0)
    /\ radio = RadioInit(FALSE)
    /\ al = AlIdle
    /\ cmd = NoCmd
    /\ lastSet = NoCmd
SpecCommand == InitCommand /\ [][NextCommand]_vars

\* a client setting and reading the sample rate of the radio between acquisitions
NextSampleRate == sample_rate_setter \/ sample_rate_getter \/ sample_rate_bandwidth
SpecSampleRate == InitCommand /\ [][NextSampleRate]_vars

-----------------------------------------------------------------------------
(* Properties *)

\* acquire_time_domain_samples has ended and its result has not been collected
AcquireEnded == op = "idle" /\ outcome.op = "acquire"

Mismatches(h) == Cardinality({i \in 1..Len(h) : ~h[i]})

\* the first k captures deviated and capture k+1 matched
DeviatedThenMatched(k) ==
    /\ Len(acq.hist) = k + 1
    /\ \A i \in 1..k : ~acq.hist[i]
    /\ acq.hist[k + 1]

\* C1: whenever acquire_time_domain_samples returns a measurement result its
\* data buffer holds exactly num_samples samples; in every other case the
\* call raises and no buffer at all is handed out.
C1_ExactCountOrFailure ==
    AcquireEnded =>
        \/ outcome.kind = "return" /\ Len(outcome.data) = acq.num_samples
        \/ outcome.kind = "raise" /\ outcome.data = <<>>

\* a result returned on the fix-up path, with skipped samples, after a retry
C1_Witness ==
    /\ AcquireEnded /\ outcome.kind = "return"
    /\ acq.fix_flag /\ acq.nskip > 0 /\ acq.num_samples > 1
    /\ Len(acq.hist) > 1
    /\ Len(outcome.data) = acq.num_samples

\* C2: for every k < retryLimit, when the sample count deviates on the first k
\* captures and matches on capture k+1 (and no device call reports an error
\* status), the call returns exactly num_samples samples from capture k+1 and
\* starts no further capture; the call never gives up after fewer than
\* retryLimit deviations.
C2_MatchAfterDeviations ==
    /\ \A k \in 0..DefaultRetries :
         (AcquireEnded /\ DeviatedThenMatched(k) /\ outcome.exc # "RSA_Error") =>
             /\ outcome.kind = "return"
             /\ Len(outcome.data) = acq.num_samples
             /\ acq.attempts = k + 1
    /\ (AcquireEnded /\ outcome.exc = "RuntimeError") =>
             Mismatches(acq.hist) >= acq.max_retries

\* the default limit, four deviations, then a match on the fifth capture
C2_Witness ==
    /\ AcquireEnded /\ outcome.kind = "return"
    /\ acq.max_retries = DefaultRetries
    /\ DeviatedThenMatched(DefaultRetries - 1)
    /\ acq.attempts = DefaultRetries

\* C3 (as stated): one call never makes more capture attempts than retryLimit.
C3_AttemptsWithinRetryLimit ==
    (op = "acquire" /\ acq.max_retries >= 1) => acq.attempts <= acq.max_retries

\* C3 (amended): one call makes at most retryLimit + 1 capture attempts, and
\* it raises the retry-exhaustion RuntimeError exactly when the sample count
\* deviated on all retryLimit + 1 of them.
C3_AttemptsWithinRetriesPlusOne ==
    /\ acq.attempts <= acq.max_retries + 1
    /\ (AcquireEnded /\ outcome.exc = "RuntimeError") =>
           /\ Len(acq.hist) = acq.max_retries + 1
           /\ Mismatches(acq.hist) = acq.max_retries + 1
    /\ (op # "idle" \/ outcome.op = "acquire") =>
           (Mismatches(acq.hist) = acq.max_retries + 1 =>
               AcquireEnded /\ outcome.exc = "RuntimeError")

\* the default limit exhausted: six captures, all deviating
C3_Witness ==
    /\ AcquireEnded /\ outcome.exc = "RuntimeError"
    /\ acq.max_retries = DefaultRetries
    /\ acq.attempts = DefaultRetries + 1
    /\ Mismatches(acq.hist) = DefaultRetries + 1

\* the record length would be refused by the command layer
RecordLengthInvalid(x) ==
    \/ check_int(x).exc # "none"
    \/ check_range(check_int(x).val, U * MinRecordLength, DeviceMaxRecordLength(dev)).exc # "none"

AcquisitionCalls ==
    { "DEVICE_Run", "IQBLK_AcquireIQData", "IQBLK_WaitForIQDataReady",
      "IQBLK_GetIQData", "IQBLK_GetIQDataDeinterleaved" }

\* C4: IQBLK_Acquire with a record length above the reported maximum, below
\* 2 or not an integer fails before any native acquisition call is issued.
C4_InvalidLengthFailsBeforeAcquisition ==
    (outcome.op = "blk_acquire" \/ op = "blk_acquire") =>
        (RecordLengthInvalid(blk.recLen) => Range(calls) \cap AcquisitionCalls = {})

\* C5: in IQSTREAM_Tempfile the acquisition status is inspected only after
\* both IQSTREAM_Stop and DEVICE_Stop, so the device is stopped when a
\* degraded-acquisition error is raised.
C5_StoppedBeforeStatusCheck ==
    pc = "T_StatusParser" => ~dev.streaming /\ ~dev.running

\* the configuration statements of IQSTREAM_Tempfile and what follows them
ConfigurationPcs ==
    { "T_TemporaryDirectory", "T_SetCenterFreq", "T_SetReferenceLevel", "T_SetAcqBandwidth",
      "T_SetOutputConfiguration", "T_SetDiskFilenameBase", "T_SetDiskFilenameSuffix",
      "T_SetDiskFileLength", "T_ClearAcqStatus", "T_DeviceRun" }

\* native calls that change the device, in the order of the protocol
ProtocolOrder ==
    << "DEVICE_Stop", "CONFIG_SetCenterFreq", "CONFIG_SetReferenceLevel",
       "IQSTREAM_SetAcqBandwidth", "IQSTREAM_SetOutputConfiguration",
       "IQSTREAM_SetDiskFilenameBaseW", "IQSTREAM_SetDiskFilenameSuffix",
       "IQSTREAM_SetDiskFileLength", "IQSTREAM_ClearAcqStatus",
       "DEVICE_Run", "IQSTREAM_Start", "IQSTREAM_Stop", "DEVICE_Stop" >>

\* the calls of log that are in names, in the order of log
RECURSIVE Restrict(_, _)
Restrict(log, names) ==
    IF log = <<>> THEN <<>>
    ELSE IF Head(log) \in names THEN <<Head(log)>> \o Restrict(Tail(log), names)
    ELSE Restrict(Tail(log), names)

IsPrefix(a, b) == Len(a) <= Len(b) /\ SubSeq(b, 1, Len(a)) = a

InTempfile == pc \in ConfigurationPcs \cup
    { "T_DeviceStop", "T_Start", "T_Poll", "T_Stop", "T_GetDiskFileInfo",
      "T_StatusParser", "T_DeviceStop2", "T_Read", "T_Deinterleave" }

\* C6: in IQSTREAM_Tempfile the device is stopped first; centre frequency,
\* reference level, bandwidth, output configuration, file name, suffix, file
\* length and status clear are issued in that order while the device is
\* stopped; DEVICE_Run comes after all of them succeeded, IQSTREAM_Start after
\* DEVICE_Run, IQSTREAM_Stop only after a poll reported complete.
C6_StreamingOrder ==
    InTempfile =>
        /\ calls # <<>> => calls[1] = "DEVICE_Stop"
        /\ IsPrefix(Restrict(calls, Range(ProtocolOrder)), ProtocolOrder)
        /\ pc \in ConfigurationPcs => ~dev.running
        /\ ("DEVICE_Run" \in Range(calls) /\ tf.tmpDir # 0) =>
              /\ dev.cf = tf.cf.v /\ dev.ref = tf.refLevel.v /\ dev.bw = tf.bw.v
              /\ dev.outCfg = <<3, 0>> /\ dev.fname = tf.tmpDir
              /\ dev.suffix = U * SuffixCtl /\ dev.fileLen = tf.durationMsec.v
              /\ dev.cleared \/ "IQSTREAM_Start" \in Range(calls)
        /\ ("IQSTREAM_Start" \in Range(calls) /\ pc \in {"T_Poll", "T_Stop"}) =>
              dev.running /\ dev.streaming
        /\ ("IQSTREAM_Stop" \in Range(calls) /\ pc # "T_Deinterleave") =>
              /\ tf.complete
              /\ \E i \in 2..Len(calls) :
                    /\ calls[i] = "IQSTREAM_Stop"
                    /\ calls[i - 1] = "IQSTREAM_GetDiskFileWriteStatus"

\* a capture that had to poll twice went through the whole protocol
C6_Witness ==
    /\ pc = "T_Read"
    /\ tf.complete
    /\ Cardinality({i \in 1..Len(calls) : calls[i] = "IQSTREAM_GetDiskFileWriteStatus"}) = 2
    /\ Restrict(calls, Range(ProtocolOrder)) = ProtocolOrder

\* C7: a degraded acquisition status, or a device or validation error during
\* a capture, ends acquire_time_domain_samples with that error at once: no
\* result, no further capture; only a sample-count mismatch consumes a retry.
C7_ErrorsPropagate ==
    [][ op = "acquire" =>
          /\ (pc = "T_StatusParser" /\ IQSTREAM_StatusParser(tf.status).exc # "none") =>
                /\ op' = "idle"
                /\ outcome'.kind = "raise"
                /\ outcome'.exc = "RSA_Error"
                /\ outcome'.msg = IQSTREAM_StatusParser(tf.status).msg
                /\ outcome'.data = <<>>
          /\ (pc # "A_Check" /\ pc' \in {"idle", "A_Capture"}) =>
                /\ op' = "idle"
                /\ outcome'.kind = "raise"
                /\ outcome'.exc \in {"RSA_Error", "TypeError", "ValueError", "KeyError",
                                     "IndexError", "FileNotFoundError"}
                /\ acq'.attempts = acq.attempts
          /\ acq'.retries # acq.retries =>
                /\ pc = "A_Check"
                /\ ~CountMatches(Len(IF acq.fix_flag
                                     THEN PySliceFrom(tf.iqData, acq.need_to_skip)
                                     ELSE tf.iqData), acq.nsamps_original)
                /\ acq'.retries = acq.retries - 1
      ]_vars

\* a degraded capture on a retry ended the call although retries were left
C7_Witness ==
    /\ AcquireEnded /\ outcome.exc = "RSA_Error" /\ outcome.msg = "Input buffer overflow. IQStream processing too slow, data loss has occurred."
    /\ acq.attempts = 2 /\ acq.retries > 0

PriorityOrder == <<16, 18, 19, 20, 21>>
CauseOf(bit) ==
    CASE bit = 16 -> "Input overrange."
      [] bit = 18 -> "Input buffer > 75% full."
      [] bit = 19 -> "Input buffer overflow. IQStream processing too slow, data loss has occurred."
      [] bit = 20 -> "Output buffer > 75% full."
      [] bit = 21 -> "Output buffer overflow. File writing too slow, data loss has occurred."

\* C8: IQSTREAM_StatusParser reports exactly one cause, the first bit set in
\* the order 16, 18, 19, 20, 21; with overrange and output overflow both set
\* the cause is overrange, whatever other bits are set.
C8_PriorityOrder ==
    pc = "P_Done" =>
        /\ \A i \in 1..Len(PriorityOrder) :
              (BitSet(arg, PriorityOrder[i]) /\ \A j \in 1..(i - 1) : ~BitSet(arg, PriorityOrder[j]))
                  => res.exc = "RSA_Error" /\ res.msg = CauseOf(PriorityOrder[i])
        /\ (BitSet(arg, 16) /\ BitSet(arg, 21)) => res.msg = "Input overrange."

\* overrange reported with output overflow and other bits set as well
C8_Witness ==
    /\ pc = "P_Done"
    /\ BitSet(arg, 16) /\ BitSet(arg, 21) /\ BitSet(arg, 19) /\ BitSet(arg, 5)
    /\ res.msg = "Input overrange."

\* statements of IQSTREAM_Tempfile inside the with-block
InsideWith ==
    pc \in (ConfigurationPcs \ {"T_TemporaryDirectory"}) \cup
           { "T_Start", "T_Poll", "T_Stop", "T_GetDiskFileInfo", "T_StatusParser",
             "T_DeviceStop2", "T_Read" }

\* C9: the temporary directory and files of a capture exist only during that
\* capture: once IQSTREAM_Tempfile is left by return or by exception nothing
\* of it remains, and every attempt has a directory no earlier attempt had.
C9_TempScopedToAttempt ==
    /\ ~InsideWith => fs = {}
    /\ InsideWith =>
          /\ tf.tmpDir = tmpMade
          /\ tmpMade = acq.attempts
          /\ DirEntry(tf.tmpDir) \in fs
          /\ \A p \in fs : p.dir = tf.tmpDir

\* a second attempt failed after its files were written: nothing is left
C9_Witness ==
    /\ AcquireEnded /\ outcome.kind = "raise" /\ outcome.msg = "Input overrange."
    /\ acq.attempts = 2 /\ tmpMade = 2
    /\ Len(acq.hist) = 1 /\ ~acq.hist[1]
    /\ fs = {}

\* some parameter of the streaming request would be refused
StreamRequestInvalid ==
    \/ check_num(tf.cf).exc # "none"
    \/ check_range(tf.cf, U * MinCenterFreq, U * MaxCenterFreq).exc # "none"
    \/ check_num(tf.refLevel).exc # "none"
    \/ check_range(tf.refLevel, U * RefLevelMin, U * RefLevelMax).exc # "none"
    \/ check_num(tf.bw).exc # "none"
    \/ check_range(tf.bw, MinAcqBandwidth, MaxAcqBandwidth).exc # "none"
    \/ check_int(tf.durationMsec).exc # "none"
    \/ check_range(tf.durationMsec, U * MinFileLength, Inf).exc # "none"

SetCalls ==
    { "CONFIG_SetCenterFreq", "CONFIG_SetReferenceLevel", "IQSTREAM_SetAcqBandwidth",
      "IQSTREAM_SetDiskFileLength", "IQBLK_SetIQBandwidth", "IQBLK_SetIQRecordLength" }

\* C10: when any one parameter of an acquisition request is invalid, no set
\* command for any parameter of the request reaches the device.
C10_NoPartialConfiguration ==
    (op = "tempfile" /\ StreamRequestInvalid) => Range(calls) \cap SetCalls = {}

\* C20: the capture_time of a returned result is the timestamp taken at the
\* top of the loop iteration whose capture succeeded; every iteration takes
\* one timestamp, and no timestamp of an earlier, failed attempt is returned.
C20_CaptureTimeOfSuccessfulAttempt ==
    /\ (op = "acquire" \/ AcquireEnded) =>
          /\ acq.attempts <= Len(acq.stamps)
          /\ Len(acq.stamps) <= acq.attempts + 1
          /\ pc \in {"A_Check"} \cup {"T_Read", "T_Deinterleave"} =>
                Len(acq.stamps) = acq.attempts
    /\ (AcquireEnded /\ outcome.kind = "return") =>
          /\ Len(acq.stamps) = Len(acq.hist)
          /\ outcome.capture_time = acq.stamps[Len(acq.stamps)]
          /\ \A i \in 1..(Len(acq.hist) - 1) :
                ~acq.hist[i] /\ acq.stamps[i] # outcome.capture_time

\* a result returned by the third attempt carries the third timestamp
C20_Witness ==
    /\ AcquireEnded /\ outcome.kind = "return"
    /\ Len(acq.hist) = 3 /\ acq.attempts = 3
    /\ acq.stamps = <<1, 2, 3>>
    /\ outcome.capture_time = 3

\* connect or align has ended and its result has not been collected
ConnectEnded == op = "idle" /\ outcome.op = "connect"
AlignEnded   == op = "idle" /\ outcome.op = "align"

Errors(h) == Cardinality({i \in 1..Len(h) : h[i] = "error"})

\* every attempt of align raised and no retry was left
AlignExhausted ==
    /\ Len(al.hist) = al.max_retries + 1
    /\ Errors(al.hist) = al.max_retries + 1

\* C17: when align exhausts its retries inside connect, connect ends with the
\* RuntimeError of align, and the radio is not marked available.
C17_ExhaustionSurfaced ==
    (ConnectEnded /\ AlignExhausted) =>
        /\ outcome.kind = "raise"
        /\ outcome.exc = "RuntimeError"
        /\ ~radio.is_available

\* C18: align makes at most retries + 1 attempts, each starting with the
\* warm-up query; it ends with RuntimeError exactly when all of them raised,
\* and an attempt without error after earlier errors ends it without error.
C18_BoundedAlignRetries ==
    (op \in {"align", "connect"} \/ AlignEnded \/ ConnectEnded) =>
        /\ Len(al.hist) <= al.max_retries + 1
        /\ al.retries >= 0
        /\ al.retries = al.max_retries - Errors(al.hist)
               \/ (AlignExhausted /\ al.retries = 0)
        /\ \A i \in 1..(Len(al.hist) - 1) : al.hist[i] = "error"
        /\ radio.rsa # "None" =>
              Cardinality({i \in 1..Len(calls) : calls[i] = "ALIGN_GetWarmupStatus"})
                  \in {Len(al.hist), Len(al.hist) + 1}
        /\ AlignEnded =>
              /\ al.hist # <<>>
              /\ (outcome.kind = "raise") <=> AlignExhausted
              /\ outcome.kind = "raise" => outcome.exc = "RuntimeError"
              /\ al.hist[Len(al.hist)] = "clean" => outcome.kind = "return"

\* two failed attempts, then a clean one: align returns normally
C18_Witness ==
    /\ AlignEnded /\ outcome.kind = "return"
    /\ al.max_retries = DefaultAlignRetries
    /\ al.hist = <<"error", "error", "clean">>
    /\ al.retries = 1

AlignQueries == {"ALIGN_GetWarmupStatus", "ALIGN_GetAlignmentNeeded", "ALIGN_RunAlignment"}
\* the last call align made on the device
LastAlignCall ==
    LET a == Restrict(calls, AlignQueries) IN IF a = <<>> THEN "" ELSE a[Len(a)]
\* align has returned without error
AlignReturned == al.hist # <<>> /\ al.hist[Len(al.hist)] = "clean"

\* C19: not warmed up: align returns without error and runs no alignment;
\* warmed up and alignment not needed: ALIGN_RunAlignment is not invoked;
\* ALIGN_RunAlignment is invoked only with both readings true, and it
\* completes at most once per connect or align.
C19_AlignmentDecision ==
    /\ pc = "L_Run" => al.warmedUp = "true" /\ al.needed = "true"
    /\ al.runs <= 1
    /\ AlignReturned =>
          /\ al.warmedUp # "unread"
          /\ al.warmedUp = "false" =>
                /\ al.runs = 0
                /\ LastAlignCall = "ALIGN_GetWarmupStatus"
                /\ AlignEnded => outcome.kind = "return"
          /\ (al.warmedUp = "true" /\ al.needed = "false") =>
                /\ al.runs = 0
                /\ LastAlignCall = "ALIGN_GetAlignmentNeeded"
          /\ (al.warmedUp = "true" /\ al.needed = "true") =>
                /\ al.runs = 1
                /\ LastAlignCall = "ALIGN_RunAlignment"

\* alignment completed on a retry, after a failed run of the alignment
C19_Witness ==
    /\ AlignEnded /\ outcome.kind = "return"
    /\ al.runs = 1
    /\ al.hist = <<"error", "clean">>
    /\ Cardinality({i \in 1..Len(calls) : calls[i] = "ALIGN_RunAlignment"}) = 2

\* the names ReturnStatus declares for the numeric code rs
NamesOf(rs) == {ReturnStatus[i][1] : i \in {j \in 1..Len(ReturnStatus) : ReturnStatus[j][2] = rs}}

\* C16: for every numeric code listed in ReturnStatus, err_check is silent
\* iff the code is 0, and otherwise raises RSA_Error carrying exactly the
\* name declared for that code; no two names share a code.
C16_StatusCodesTranslate ==
    /\ \A i, j \in 1..Len(ReturnStatus) :
          ReturnStatus[i][2] = ReturnStatus[j][2] => i = j
    /\ (pc = "E_Done" /\ NamesOf(arg) # {}) =>
          /\ res.exc = "none" <=> arg = 0
          /\ arg # 0 => res.exc = "RSA_Error" /\ NamesOf(arg) = {res.msg}

-----------------------------------------------------------------------------
(* Setters of the command layer *)

NumSetters ==
    { "CONFIG_SetCenterFreq", "CONFIG_SetReferenceLevel", "TRIG_SetIFPowerTriggerLevel",
      "TRIG_SetTriggerPositionPercent", "AUDIO_SetVolume", "AUDIO_SetFrequencyOffset",
      "IQSTREAM_SetAcqBandwidth", "IQBLK_SetIQBandwidth" }
IntSetters ==
    { "AUDIO_SetMode", "IQSTREAM_SetDiskFileLength", "IQSTREAM_SetDiskFilenameSuffix",
      "IQBLK_SetIQRecordLength", "IQSTREAM_SetIQDataBufferSize" }
BoolSetters == { "AUDIO_SetMute", "CONFIG_SetExternalRefEnable", "SPECTRUM_SetEnable" }
EnumSetters ==
    { "TRIG_SetTriggerMode", "TRIG_SetTriggerSource", "TRIG_SetTriggerTransition",
      "CONFIG_SetFrequencyReferenceSource" }
StringSetters == EnumSetters \cup { "IQSTREAM_SetDiskFilenameBase" }
SingleSetters == NumSetters \cup IntSetters \cup BoolSetters \cup StringSetters
RangedSetters == (NumSetters \cup IntSetters) \ { "IQSTREAM_SetIQDataBufferSize" }

\* the type check a setter applies to its argument
TypeCheckOf(name, x) ==
    CASE name \in NumSetters  -> check_num(x)
      [] name \in IntSetters  -> check_int(x)
      [] name \in BoolSetters -> check_bool(x)
      [] OTHER                -> check_string(x)

\* the range a setter declares, in eighths, for the device d it is called on
RangeOf(name, d) ==
    CASE name = "CONFIG_SetCenterFreq"           -> <<U * MinCenterFreq, U * MaxCenterFreq>>
      [] name = "CONFIG_SetReferenceLevel"       -> <<U * RefLevelMin, U * RefLevelMax>>
      [] name = "TRIG_SetIFPowerTriggerLevel"    -> <<U * RefLevelMin, U * RefLevelMax>>
      [] name = "TRIG_SetTriggerPositionPercent" -> <<U * TrigPosMin, U * TrigPosMax>>
      [] name = "AUDIO_SetVolume"                -> <<U * VolumeMin, U * VolumeMax>>
      [] name = "AUDIO_SetFrequencyOffset"       -> <<U * (-MaxFreqOffset), U * MaxFreqOffset>>
      [] name = "IQSTREAM_SetAcqBandwidth"       -> <<MinAcqBandwidth, MaxAcqBandwidth>>
      [] name = "IQBLK_SetIQBandwidth"           -> <<U * MinIQBandwidth, U * MaxIQBandwidth>>
      [] name = "AUDIO_SetMode"                  -> <<U * AudioModeMin, U * AudioModeMax>>
      [] name = "IQSTREAM_SetDiskFileLength"     -> <<U * MinFileLength, Inf>>
      [] name = "IQSTREAM_SetDiskFilenameSuffix" -> <<U * MinSuffixCtl, Inf>>
      [] name = "IQBLK_SetIQRecordLength"        -> <<U * MinRecordLength, DeviceMaxRecordLength(d)>>

\* the set a string setter accepts
TupleOf(name) ==
    CASE name = "TRIG_SetTriggerMode"                -> TRIGGER_MODE
      [] name = "TRIG_SetTriggerSource"              -> TRIGGER_SOURCE
      [] name = "TRIG_SetTriggerTransition"          -> TRIGGER_TRANSITION
      [] name = "CONFIG_SetFrequencyReferenceSource" -> FREQREF_SOURCE

\* the native function a setter ends with
NativeOf(name) ==
    IF name = "IQSTREAM_SetDiskFilenameBase" THEN "IQSTREAM_SetDiskFilenameBaseW" ELSE name

\* the argument passed the type check and lies outside the declared range or set
OutOfRange(c) ==
    /\ TypeCheckOf(c.name, c.arg).exc = "none"
    /\ \/ /\ c.name \in RangedSetters
          /\ \/ c.arg.v < RangeOf(c.name, c.before)[1]
             \/ c.arg.v > RangeOf(c.name, c.before)[2]
       \/ /\ c.name \in EnumSetters
          /\ c.arg.s \notin Range(TupleOf(c.name))

NativeSetIssued == \E i \in DOMAIN calls : calls[i] = NativeOf(cmd.name)

-----------------------------------------------------------------------------
(* Numeric parameters with a declared range *)

RangedParameters ==
    { "CONFIG_SetReferenceLevel", "TRIG_SetIFPowerTriggerLevel",
      "TRIG_SetTriggerPositionPercent", "AUDIO_SetMode", "AUDIO_SetVolume" }

\* the getter matching a setter
GetterOf(name) ==
    CASE name = "CONFIG_SetReferenceLevel"           -> "CONFIG_GetReferenceLevel"
      [] name = "TRIG_SetIFPowerTriggerLevel"        -> "TRIG_GetIFPowerTriggerLevel"
      [] name = "TRIG_SetTriggerPositionPercent"     -> "TRIG_GetTriggerPositionPercent"
      [] name = "AUDIO_SetMode"                      -> "AUDIO_GetMode"
      [] name = "AUDIO_SetVolume"                    -> "AUDIO_GetVolume"
      [] name = "TRIG_SetTriggerMode"                -> "TRIG_GetTriggerMode"
      [] name = "TRIG_SetTriggerSource"              -> "TRIG_GetTriggerSource"
      [] name = "TRIG_SetTriggerTransition"          -> "TRIG_GetTriggerTransition"
      [] name = "CONFIG_SetFrequencyReferenceSource" -> "CONFIG_GetFrequencyReferenceSource"
      [] OTHER                                       -> "none"

\* the setter ended without exception, or the device answered its native set
\* by an error status
SetSucceeded(c) == c.exc = "none" \/ (c.exc = "RSA_Error" /\ c.msg = "status")

\* the command just made is a get that returned, and the last set is the
\* matching set of one of the parameters, which succeeded
GetAfterSet(parameters) ==
    /\ lastSet.name \in parameters
    /\ lastSet.exc = "none"
    /\ cmd.name = GetterOf(lastSet.name)
    /\ cmd.exc = "none"

\* a number of the setter's type: in range it is set, outside it is a ValueError
RangeEnforced ==
    (cmd.name \in RangedParameters /\ TypeCheckOf(cmd.name, cmd.arg).exc = "none") =>
        IF OutOfRange(cmd) THEN cmd.exc = "ValueError" /\ calls = <<>>
        ELSE SetSucceeded(cmd)

-----------------------------------------------------------------------------
(* Enumerated parameters with a Set and a Get *)

TriggerSetters == { "TRIG_SetTriggerMode", "TRIG_SetTriggerSource", "TRIG_SetTriggerTransition" }

\* the command just made is a Set of one of the setters with one of the tokens
SetOfToken(setters, tokens) ==
    /\ cmd.name \in setters
    /\ cmd.arg.t = "str"
    /\ cmd.arg.s \in tokens

\* tuple.index and tuple[...] are inverse on the whole tuple of every parameter
OrdinalsInverse ==
    \A name \in EnumSetters :
        \A i \in 1..Len(TupleOf(name)) : IndexOf(TupleOf(name), TupleOf(name)[i]) = i - 1

-----------------------------------------------------------------------------
(* CONFIG_SetFrequencyReferenceSource *)

\* C14: CONFIG_SetFrequencyReferenceSource('GNSS') is rejected without the
\* native set call, by a failure that differs from the one for a string
\* outside the set; INTERNAL, EXTREF and USER are forwarded with their
\* ordinal; a non-string argument raises TypeError.
C14_GNSSRejected ==
    cmd.name = "CONFIG_SetFrequencyReferenceSource" =>
        /\ (cmd.arg.t = "str" /\ cmd.arg.s = "GNSS") =>
               /\ cmd.exc = "RSA_Error"
               /\ cmd.msg = "RSA 306B does not support GNSS reference."
               /\ calls = <<>>
               /\ dev = cmd.before
        /\ (cmd.arg.t = "str" /\ cmd.arg.s \notin Range(FREQREF_SOURCE)) =>
               /\ cmd.exc = "RSA_Error"
               /\ cmd.msg = "Input does not match a valid setting."
               /\ calls = <<>>
        /\ (cmd.arg.t = "str" /\ cmd.arg.s \in {"INTERNAL", "EXTREF", "USER"}) =>
               /\ calls = <<"CONFIG_SetFrequencyReferenceSource">>
               /\ SetSucceeded(cmd)
               /\ cmd.exc = "none" =>
                      dev.freqRef \in FreqRefHeld(IndexOf(FREQREF_SOURCE, cmd.arg.s))
        /\ cmd.arg.t # "str" => cmd.exc = "TypeError" /\ calls = <<>>

\* a string 'GNSS' that is not the object of the literal went to the device
C14_GNSSForwarded ==
    /\ cmd.name = "CONFIG_SetFrequencyReferenceSource"
    /\ cmd.arg = PyStrCopy("GNSS")
    /\ cmd.exc = "none"
    /\ calls = <<"CONFIG_SetFrequencyReferenceSource">>
    /\ dev.freqRef = 2

-----------------------------------------------------------------------------
(* IQSTREAM_SetOutputConfiguration *)

SinglePrecision == { "SINGLE", "SINGLE_SCALE_INT32" }

\* C15: over the 4 x 4 destinations and datatypes, the command raises
\* RSA_Error without a native call exactly when the destination is FILE_TIQ
\* and the datatype SINGLE or SINGLE_SCALE_INT32; each of the other 14 pairs
\* is passed to the device as its two ordinals; a string outside its set
\* raises RSA_Error and a non-string TypeError, both without a native call.
C15_OutputConfiguration ==
    cmd.name = "IQSTREAM_SetOutputConfiguration" =>
        LET dest   == cmd.arg
            dtype  == cmd.arg2
            tokens == /\ dest.t = "str" /\ dest.s \in Range(IQSOUTDEST)
                      /\ dtype.t = "str" /\ dtype.s \in Range(IQSOUTDTYPE)
        IN  /\ (dest.t # "str" \/ dtype.t # "str") =>
                   cmd.exc = "TypeError" /\ calls = <<>> /\ dev = cmd.before
            /\ (dest.t = "str" /\ dtype.t = "str" /\ ~tokens) =>
                   cmd.exc = "RSA_Error" /\ calls = <<>> /\ dev = cmd.before
            /\ tokens =>
                   IF dest.s = "FILE_TIQ" /\ dtype.s \in SinglePrecision
                   THEN /\ cmd.exc = "RSA_Error"
                        /\ cmd.msg = "Invalid selection of TIQ file with single precision data type."
                        /\ calls = <<>>
                        /\ dev = cmd.before
                   ELSE /\ calls = <<"IQSTREAM_SetOutputConfiguration">>
                        /\ SetSucceeded(cmd)
                        /\ cmd.exc = "none" =>
                               \E i \in 1..Len(IQSOUTDEST), j \in 1..Len(IQSOUTDTYPE) :
                                   /\ IQSOUTDEST[i] = dest.s
                                   /\ IQSOUTDTYPE[j] = dtype.s
                                   /\ dev.outCfg = <<i - 1, j - 1>>

\* FILE_TIQ with INT16 went to the device as ordinals 1 and 2
C15_Witness ==
    /\ cmd.name = "IQSTREAM_SetOutputConfiguration"
    /\ cmd.arg = PyStr("FILE_TIQ")
    /\ cmd.arg2 = PyStr("INT16")
    /\ cmd.exc = "none"
    /\ calls = <<"IQSTREAM_SetOutputConfiguration">>
    /\ dev.outCfg = <<1, 2>>

-----------------------------------------------------------------------------
(* The fix-up path of acquire_time_domain_samples *)

\* the duration and the extra skip of a call on the fix-up path
FixUpPlan ==
    (op = "acquire" /\ acq.fix_flag) =>
        LET rate8 == DeviceSampleRate(dev.bw)
            ns    == acq.num_samples + acq.nskip
            extra == acq.need_to_skip
        IN  /\ 1000 * U * ns < rate8
            /\ acq.durationMsec = 1
            /\ pc = "T_SetDiskFileLength" => tf.durationMsec = PyInt(1)
            /\ extra >= 0
            /\ 1000 * U * extra <= rate8 - 1000 * U * ns
            /\ rate8 - 1000 * U * ns < 1000 * U * (extra + 1)

\* a capture of exactly extra skip + N + S raw samples is accepted and cut
FixUpCut ==
    (pc = "A_Check" /\ acq.fix_flag
        /\ Len(tf.iqData) = acq.need_to_skip + acq.num_samples + acq.nskip) =>
        \/ /\ outcome'.kind = "return"
           /\ outcome'.data = [k \in 1..acq.num_samples |->
                                   tf.iqData[acq.need_to_skip + acq.nskip + k]]
        \/ outcome'.kind = "raise" /\ outcome'.exc = "RSA_Error"

\* C21: when floor(1000 * (N + S) / rate) is 0 the capture is requested for
\* 1 ms, the extra skip is floor(rate / 1000 - (N + S)) >= 0, and a capture
\* that delivers exactly extra skip + N + S raw samples makes the call return
\* the last N of them (unless a device query of the result reports an error).
C21_FixUpPath == []FixUpPlan /\ [][FixUpCut]_vars

\* a result of the fix-up path: the samples after the extra skip and after S
C21_Witness ==
    /\ AcquireEnded /\ outcome.kind = "return"
    /\ acq.fix_flag /\ acq.need_to_skip > 0 /\ acq.nskip > 0 /\ acq.num_samples > 1
    /\ outcome.data[1] = <<2 * (acq.need_to_skip + acq.nskip) + 1,
                           2 * (acq.need_to_skip + acq.nskip) + 2>>
    /\ Len(outcome.data) = acq.num_samples

-----------------------------------------------------------------------------
(* Deinterleaving *)

Deinterleaved == op = "deinterleave" /\ pc = "D_Done"

\* C22: for every flat buffer of 2m values, m >= 1, I and Q have length m
\* with I[i] = buffer[2i] and Q[i] = buffer[2i+1] (counting from 0), and the
\* complex sequence returned has length m with element i equal to
\* buffer[2i] + j * buffer[2i+1].
C22_DeinterleaveEven ==
    (Deinterleaved /\ Len(arg) >= 2 /\ Len(arg) % 2 = 0) =>
        LET m == Len(arg) \div 2 IN
        /\ Len(res.i) = m /\ Len(res.q) = m
        /\ res.exc = "none" /\ Len(res.iqData) = m
        /\ \A k \in 1..m :
              /\ res.i[k] = arg[2 * k - 1]
              /\ res.q[k] = arg[2 * k]
              /\ res.iqData[k] = <<arg[2 * k - 1], arg[2 * k]>>

\* a buffer of six values whose I and Q differ
C22_Witness ==
    /\ Deinterleaved
    /\ arg = <<0, 1, 0, 1, 0, 1>>
    /\ res.iqData = << <<0, 1>>, <<0, 1>>, <<0, 1>> >>

\* C23: for every flat buffer of 2m+1 values Q has length m+1, its last
\* element is the last value of the buffer, and I and Q are recombined into
\* one sequence of complex samples without failure.
C23_DeinterleaveOdd ==
    (Deinterleaved /\ Len(arg) % 2 = 1) =>
        LET m == Len(arg) \div 2 IN
        /\ Len(res.q) = m + 1
        /\ res.q[m + 1] = arg[Len(arg)]
        /\ res.exc = "none"

-----------------------------------------------------------------------------
(* Run state of the device *)

RunStop == { "DEVICE_Run", "DEVICE_Stop" }

\* C24: after a successful DEVICE_Run the device reports the run state and
\* after a successful DEVICE_Stop the stop state, whatever the state before;
\* run on a running device and stop on a stopped device change nothing.
C24_RunStopState ==
    /\ (cmd.name \in RunStop /\ cmd.exc = "none") =>
           /\ dev.running = (cmd.name = "DEVICE_Run")
           /\ cmd.before.running = dev.running => dev = cmd.before
    /\ (cmd.name = "DEVICE_GetEnable" /\ cmd.exc = "none"
           /\ lastSet.name \in RunStop /\ lastSet.exc = "none") =>
           cmd.val = PyBool(lastSet.name = "DEVICE_Run")

\* run on a device that was already running, then the query of the run state
C24_Witness ==
    /\ cmd.name = "DEVICE_GetEnable" /\ cmd.val = PyBool(TRUE)
    /\ lastSet.name = "DEVICE_Run" /\ lastSet.exc = "none"
    /\ lastSet.before.running

-----------------------------------------------------------------------------
(* Run state left behind by the two protocols *)

TempfileReturned ==
    op = "idle" /\ outcome.op = "tempfile" /\ outcome.kind = "return"

BlkAcquireReturned ==
    op = "idle" /\ outcome.op = "blk_acquire" /\ outcome.kind = "return"

\* the native calls of the block helpers: none of them ends the running state
BlkHelperStep ==
    /\ op \in {"blk_configure", "blk_acquire"}
    /\ dev.running

RunStateLeftBehind ==
    /\ TempfileReturned => ~dev.running /\ ~dev.streaming
    /\ BlkAcquireReturned =>
          /\ dev.running
          /\ calls[1] = "DEVICE_Run"
          /\ "DEVICE_Stop" \notin Range(calls)

\* C39: a successful IQSTREAM_Tempfile returns with the device stopped and
\* streaming stopped; IQBLK_Acquire issues DEVICE_Run first and never
\* DEVICE_Stop, so it returns with the device running, and the configuration
\* commands of IQBLK_Configure issued on a running device leave it running.
C39_RunStateAfterProtocols ==
    []RunStateLeftBehind /\ [][BlkHelperStep => dev'.running]_vars

\* a block acquisition returned its data and the device is running
C39_Witness ==
    /\ BlkAcquireReturned
    /\ dev.running /\ ~dev.acquiring
    /\ Len(outcome.data) > 0

\* a configuration command of IQBLK_Configure took effect on a running device
C39_ConfiguredWhileRunning ==
    /\ op = "blk_configure" /\ pc = "C_SetReferenceLevel"
    /\ dev.running
    /\ calls # <<>> /\ calls[Len(calls)] = "CONFIG_SetCenterFreq"

\* a streaming capture returned with the device and the stream stopped
C39_StreamStopped ==
    /\ TempfileReturned
    /\ ~dev.running /\ ~dev.streaming
    /\ "DEVICE_Run" \in Range(calls)

-----------------------------------------------------------------------------
(* Block acquisition *)

InBlkAcquire == op = "blk_acquire" \/ (op = "idle" /\ outcome.op = "blk_acquire")

\* position of a native call in the order of IQBLK_Acquire
BlkRank(name) ==
    CASE name = "DEVICE_Run"                 -> 1
      [] name = "IQBLK_AcquireIQData"        -> 2
      [] name = "IQBLK_WaitForIQDataReady"   -> 3
      [] name = "IQBLK_GetMaxIQRecordLength" -> 4
      [] name \in BlockFunctions             -> 5
      [] OTHER                               -> 0

\* run, initiate, poll (once or more), and only then the retrieval
BlkOrder ==
    InBlkAcquire =>
        /\ calls # <<>> => calls[1] = "DEVICE_Run"
        /\ \A i \in 1..(Len(calls) - 1) :
              \/ BlkRank(calls[i + 1]) = BlkRank(calls[i]) + 1
              \/ BlkRank(calls[i + 1]) = 3 /\ BlkRank(calls[i]) = 3
        /\ Len(calls) >= 2 => dev.running
        /\ (\E i \in 1..Len(calls) : BlkRank(calls[i]) >= 4) => blk.ready
        /\ pc = "B_GetIQData" => blk.ready

\* C25: IQBLK_Acquire runs the device, then initiates the acquisition, then
\* polls the ready check, and retrieves the data only after a ready check
\* returned true; once the device reports ready the call ends.
C25_BlockAcquireOrder == []BlkOrder /\ ((op = "blk_acquire") ~> (op = "idle"))

\* data returned after a ready check that returned false and one that returned true
C25_Witness ==
    /\ op = "idle" /\ outcome.op = "blk_acquire" /\ outcome.kind = "return"
    /\ blk.polls = 2 /\ blk.ready
    /\ Len(calls) = 6

-----------------------------------------------------------------------------
(* The count reported when the retries are exhausted *)

\* C26: the RuntimeError raised when the retries are exhausted carries the
\* number of consecutive captures that returned a wrong sample count before
\* the call gave up.
C26_FailureCountReported ==
    (AcquireEnded /\ outcome.exc = "RuntimeError") =>
        outcome.n = Mismatches(acq.hist)

-----------------------------------------------------------------------------
(* DEVICE_SearchAndConnect *)

\* C27: DEVICE_SearchAndConnect issues DEVICE_Connect only if the search
\* found exactly one device; with no device or more than one it raises
\* RSA_Error and issues no connect call.
C27_ConnectOnlyOneDevice ==
    (op = "connect" \/ ConnectEnded) =>
        /\ (\E i \in 1..Len(calls) : calls[i] = "DEVICE_Connect") => dev.attached = 1
        /\ (dev.attached # 1 /\ calls # <<>> /\ calls[1] = "DEVICE_Search") =>
               /\ calls = <<"DEVICE_Search">>
               /\ ConnectEnded
               /\ al.logged # <<>> /\ al.logged[1] = "RSA_Error"
               /\ ~dev.connected

\* two devices were found: the search was the only native call
C27_Witness ==
    /\ ConnectEnded
    /\ dev.attached = 2
    /\ calls = <<"DEVICE_Search">>
    /\ al.logged = <<"RSA_Error", "Found n devices, need exactly 1.">>
    /\ ~dev.connected

-----------------------------------------------------------------------------
(* AUDIO_GetMode *)

AudioModes == {U * k : k \in AudioModeMin..AudioModeMax}

\* C28: AUDIO_GetMode never returns a value outside 0..5; when the device
\* reports a mode outside 0..5 it raises RSA_Error; and for every value in
\* 0..5 set by AUDIO_SetMode a following AUDIO_GetMode returns that value.
C28_AudioModeWithinSet ==
    /\ cmd.name = "AUDIO_GetMode" =>
           /\ cmd.exc = "none" => cmd.val.t = "int" /\ cmd.val.v \in AudioModes
           /\ dev.audioMode \notin AudioModes => cmd.exc = "RSA_Error"
    /\ GetAfterSet({"AUDIO_SetMode"}) =>
           lastSet.arg.v \in AudioModes /\ cmd.val.v = lastSet.arg.v

\* the largest mode, set on a device whose mode was not set, is read back
C28_Witness ==
    /\ GetAfterSet({"AUDIO_SetMode"})
    /\ lastSet.before.audioMode \notin AudioModes
    /\ lastSet.arg = PyInt(AudioModeMax)
    /\ cmd.val = PyInt(AudioModeMax)

\* the query of a mode that was not set ended in RSA_Error
C28_NotSetRaises ==
    /\ cmd.name = "AUDIO_GetMode"
    /\ dev.audioMode > U * AudioModeMax
    /\ cmd.exc = "RSA_Error"
    /\ cmd.msg = "Audio demodulation mode has not yet been set."

-----------------------------------------------------------------------------
(* recompute_calibration_data *)

\* the lookup of calibration c supplied field k
Supplied(c, k) == c.loaded /\ k \in DOMAIN c.dict

Recomputed == op = "calibration" /\ pc = "R_Done"

\* C29: after recompute_calibration_data an unknown sigan gain is 0 and an
\* unknown sigan ENBW is the active sample rate; an unknown sensor gain,
\* sensor ENBW and sensor noise figure are the (defaulted) sigan gain, sigan
\* ENBW and sigan noise figure; an unknown sensor 1dB compression point is
\* preselector gain + sigan 1dB compression point; and a field the lookup
\* supplied keeps the supplied value.
C29_CalibrationDefaults ==
    Recomputed =>
        LET sensor == res.sensor_calibration_data
            sigan == res.sigan_calibration_data
            sc == arg.sensor_calibration
            gc == arg.sigan_calibration
        IN /\ res.exc = "none"
           /\ ~Supplied(gc, "gain_sigan") => sigan.gain_sigan = 0
           /\ ~Supplied(gc, "enbw_sigan") => sigan.enbw_sigan = arg.sample_rate
           /\ ~Supplied(sc, "gain_sensor") => sensor.gain_sensor = sigan.gain_sigan
           /\ ~Supplied(sc, "enbw_sensor") => sensor.enbw_sensor = sigan.enbw_sigan
           /\ ~Supplied(sc, "noise_figure_sensor") =>
                  sensor.noise_figure_sensor = sigan.noise_figure_sigan
           /\ ~Supplied(sc, "1db_compression_sensor") =>
                  sensor.1db_compression_sensor =
                      sensor.gain_preselector + sigan.1db_compression_sigan
           /\ \A k \in SiganKeys : Supplied(gc, k) => sigan[k] = gc.dict[k]
           /\ \A k \in SensorKeys : Supplied(sc, k) => sensor[k] = sc.dict[k]
           /\ \A k \in DOMAIN sigan \cup DOMAIN sensor :
                  (IF k \in DOMAIN sigan THEN sigan[k] ELSE sensor[k]) # None

\* nothing about the sigan gain and ENBW is known and the sensor lookup gives
\* a preselector gain only: the sensor fields cascade from the defaulted sigan
C29_Witness ==
    /\ Recomputed
    /\ ~arg.sigan_calibration.loaded
    /\ arg.sensor_calibration.loaded
    /\ DOMAIN arg.sensor_calibration.dict = {"gain_preselector"}
    /\ arg.sensor_calibration.dict.gain_preselector = MaxCal
    /\ res.sensor_calibration_data.gain_sensor = 0
    /\ res.sensor_calibration_data.enbw_sensor = arg.sample_rate
    /\ res.sensor_calibration_data.1db_compression_sensor = MaxCal + 100

-----------------------------------------------------------------------------
(* Type checks of the command layer *)

IsNumber(x) == x.t = "int" \/ x.t = "float"
IsWhole(x) == x.t = "int" \/ (x.t = "float" /\ x.v % U = 0)

\* the query of a device limit, made after the type check, failed
StatusFailure(c) == c.exc = "RSA_Error" /\ c.msg = "status"

\* C30: a setter that takes a number accepts integers and reals and rejects
\* booleans and strings with TypeError; a setter that takes an integer
\* accepts integers and whole-valued reals, converted to integer, and rejects
\* fractional reals, booleans and strings with TypeError, so that a
\* whole-valued real outside the range ends in ValueError, not TypeError.
C30_TypeChecks ==
    /\ cmd.name \in NumSetters =>
           /\ cmd.exc = "TypeError" <=> ~IsNumber(cmd.arg)
           /\ cmd.exc = "TypeError" => cmd.msg = "Input must be a number (float or int)."
    /\ cmd.name \in IntSetters =>
           /\ cmd.exc = "TypeError" <=> ~IsWhole(cmd.arg)
           /\ cmd.exc = "TypeError" => cmd.msg = "Input must be an integer."
           /\ IsWhole(cmd.arg) => LET r == check_int(cmd.arg) IN
                                      r.exc = "none" /\ r.val.t = "int" /\ r.val.v = cmd.arg.v
           /\ ( /\ cmd.arg.t = "float"
                /\ IsWhole(cmd.arg)
                /\ cmd.name \in RangedSetters
                /\ \/ cmd.arg.v < RangeOf(cmd.name, cmd.before)[1]
                   \/ cmd.arg.v > RangeOf(cmd.name, cmd.before)[2] )
              => cmd.exc = "ValueError" \/ StatusFailure(cmd)

\* a whole-valued real record length above the maximum ended in ValueError
C30_Witness ==
    /\ cmd.name = "IQBLK_SetIQRecordLength"
    /\ cmd.arg = PyFloat(U * (RecLenPerBW * MaxIQBandwidth + 1))
    /\ cmd.exc = "ValueError"
    /\ dev = cmd.before

\* a boolean centre frequency ended in TypeError
C30_BooleanRejected ==
    /\ cmd.name = "CONFIG_SetCenterFreq"
    /\ cmd.arg = PyBool(FALSE)
    /\ cmd.exc = "TypeError"

-----------------------------------------------------------------------------
(* Termination of acquire_time_domain_samples *)

\* a capture attempt begins: a complete run of IQSTREAM_Tempfile from its
\* first statement, the device stop, with nothing left of an earlier run
AttemptBegins ==
    acq'.attempts > acq.attempts =>
        /\ acq'.attempts = acq.attempts + 1
        /\ pc = "A_Capture"
        /\ pc' = "T_DeviceStop"
        /\ calls' = <<>>
        /\ tf'.tmpDir = 0 /\ tf'.polls = 0 /\ tf'.d = <<>> /\ tf'.iqData = <<>>
        /\ Len(acq.hist) = acq.attempts

\* a deviating attempt of a call in progress costs one retry and leads to the
\* next attempt, or, with none left, ends the call
MismatchCounted ==
    (op = "acquire" /\ Len(acq'.hist) = Len(acq.hist) + 1 /\ ~acq'.hist[Len(acq'.hist)]) =>
        \/ acq.retries > 0 /\ acq'.retries = acq.retries - 1 /\ pc' = "A_Capture"
        \/ acq.retries = 0 /\ acq'.retries = 0 /\ op' = "idle"
                           /\ outcome'.exc = "RuntimeError"

\* the counter changes by a deviating attempt only
RetriesOnlyOnMismatch ==
    (op = "acquire" /\ acq'.retries # acq.retries) =>
        Len(acq'.hist) = Len(acq.hist) + 1 /\ ~acq'.hist[Len(acq'.hist)]

RetriesBounded ==
    /\ acq.retries >= 0
    /\ acq.retries <= acq.max_retries
    /\ acq.attempts <= acq.max_retries + 1
    /\ op = "acquire" => acq.retries + Mismatches(acq.hist) = acq.max_retries

-----------------------------------------------------------------------------
(* The capture duration asked of the device *)

\* the samples a capture of durationMsec delivers at sample rate sr8 when the
\* device delivers exactly durationMsec * rate / 1000 of them
Delivered(durationMsec, sr8) == (durationMsec * sr8) \div (1000 * U)

\* C32: the capture duration acquire_time_domain_samples asks of the device
\* covers at least N + S samples at the sample rate, so that a device
\* delivering exactly duration * rate / 1000 samples passes the sample-count
\* check on the first attempt.
C32_DurationCoversRequest ==
    LET sample_rate == DeviceSampleRate(dev.bw) IN
    /\ op = "acquire" =>
           acq.durationMsec * sample_rate >= 1000 * U * acq.nsamps_original
    /\ ( /\ pc = "A_Check"
         /\ acq.attempts = 1
         /\ Len(tf.iqData) = Delivered(acq.durationMsec, sample_rate) ) =>
           LET fixed == IF acq.fix_flag THEN PySliceFrom(tf.iqData, acq.need_to_skip)
                        ELSE tf.iqData
           IN CountMatches(Len(fixed), acq.nsamps_original)

-----------------------------------------------------------------------------
(* The run state IQSTREAM_Tempfile leaves behind *)

\* IQSTREAM_Tempfile ended, and DEVICE_Run had returned before it did
EndedAfterRun ==
    /\ op = "idle"
    /\ outcome.op \in {"tempfile", "acquire"}
    /\ \E i \in 1..(Len(calls) - 1) : calls[i] = "DEVICE_Run"

\* C33: whenever IQSTREAM_Tempfile exits, by return or by an exception raised
\* after DEVICE_Run was issued, the device is not left in the running state
\* and IQ streaming is not left active.
C33_StoppedOnEveryExit ==
    EndedAfterRun => ~dev.running /\ ~dev.streaming

-----------------------------------------------------------------------------
(* The sample rates of the radio *)

Descending(seq) == \A i, j \in 1..Len(seq) : i < j => seq[i] > seq[j]

\* C34: for every rate r of ALLOWED_SR, setting radio.sample_rate = r succeeds
\* and a following read of radio.sample_rate returns r; sr_bw_map is defined
\* for every sample rate the device reports; ALLOWED_SR is ordered from
\* greatest to least and paired index by index with ALLOWED_BW.
C34_SampleRateTable ==
    /\ (lastSet.name = "sample_rate.setter" /\ lastSet.arg.v \in Range(ALLOWED_SR)) =>
           /\ SetSucceeded(lastSet)
           /\ Descending(ALLOWED_SR)
           /\ \A i \in 1..Len(ALLOWED_SR) :
                  (lastSet.exc = "none" /\ lastSet.arg.v = ALLOWED_SR[i]) =>
                      dev.bw = ALLOWED_BW[i]
    /\ ( /\ lastSet.name = "sample_rate.setter"
         /\ lastSet.exc = "none"
         /\ cmd.name = "sample_rate"
         /\ cmd.exc = "none" ) => cmd.val.v = lastSet.arg.v
    /\ cmd.name = "sr_bw_map" => cmd.exc \in {"none", "RSA_Error"}

-----------------------------------------------------------------------------
(* The status words IQSTREAM_StatusParser lets through *)

SummaryBits == {16, 18, 19, 20, 21}

\* C35: IQSTREAM_StatusParser raises iff at least one of the run-summary bits
\* 16, 18, 19, 20, 21 is set; a status of 0 is silent, and so is a non-zero
\* status in which only other bits (a per-block bit, or bit 17) are set.
C35_ParserRaisesOnSummaryBits ==
    (op = "parser" /\ pc = "P_Done") =>
        /\ res.exc = "RSA_Error" <=> \E b \in SummaryBits : BitSet(arg, b)
        /\ res.exc = "none" <=> \A b \in SummaryBits : ~BitSet(arg, b)
        /\ arg = 0 => res.exc = "none"

\* a status with the USB discontinuity bit and a per-block bit passed silently
C35_Witness ==
    /\ op = "parser" /\ pc = "P_Done"
    /\ arg = 2^17 + 2^5
    /\ res.exc = "none"

-----------------------------------------------------------------------------
(* The availability of the radio *)

Issued(name) == \E i \in 1..Len(calls) : calls[i] = name

\* the radio becomes available: it has a handle, and when it is not mocked
\* the device is connected, align has returned without error, both frequency
\* limits are stored, and nothing was caught on the way
BecomesAvailable ==
    (~radio.is_available /\ radio'.is_available) =>
        /\ op = "connect"
        /\ radio'.rsa # "None"
        /\ Issued("DEVICE_GetNomenclature")
        /\ ~radio.mock =>
              /\ radio'.rsa = "api"
              /\ dev.connected /\ Issued("DEVICE_Connect")
              /\ AlignReturned
              /\ radio'.min_frequency # 0 /\ radio'.max_frequency # 0
              /\ Issued("CONFIG_GetMaxCenterFreq")
              /\ al.logged = <<>>

\* C36: is_available is true only if a device handle exists and, on the
\* hardware path, search-and-connect, the alignment procedure and the
\* frequency-constraint query all completed without error; a failure in any
\* of them leaves is_available false.
C36_AvailableOnlyWhenConnected ==
    /\ [](radio.is_available =>
              /\ radio.rsa # "None"
              /\ ~radio.mock => radio.min_frequency # 0 /\ radio.max_frequency # 0)
    /\ []((op = "connect" /\ al.logged # <<>>) => ~radio.is_available)
    /\ []((ConnectEnded /\ al.logged # <<>>) => ~radio.is_available)
    /\ [][BecomesAvailable]_vars

\* the hardware path completed after an error in the first attempt of align
C36_Witness ==
    /\ ConnectEnded
    /\ radio.is_available /\ radio.rsa = "api"
    /\ al.hist = <<"error", "clean">>
    /\ dev.connected

\* the constraint query failed at the second limit: not available
C36_ConstraintQueryFailed ==
    /\ ConnectEnded
    /\ ~radio.is_available
    /\ radio.min_frequency # 0 /\ radio.max_frequency = 0
    /\ al.logged = <<"RSA_Error", "status">>

\* a connect of an available radio is about to return, or has returned
NoOpConnect ==
    (pc = "K_Available" /\ radio.is_available) =>
        /\ radio' = radio
        /\ dev' = dev
        /\ calls' = <<>> /\ calls = <<>>
        /\ op' = "idle" /\ outcome'.kind = "return"

\* C37: connect called while the radio is already available is a no-op: it
\* issues no device command and leaves the handle, the availability flag and
\* the frequency constraints unchanged.
C37_ConnectWhenAvailable ==
    /\ [][NoOpConnect]_vars
    /\ []((op = "connect" /\ radio.is_available) => pc = "K_Available" /\ calls = <<>>)

\* an available radio, connected again: the call returned with nothing issued
C37_Witness ==
    /\ ConnectEnded /\ outcome.kind = "return"
    /\ radio.is_available /\ radio.rsa = "api"
    /\ radio.max_frequency = U * MaxCenterFreq
    /\ calls = <<>>

-----------------------------------------------------------------------------
(* The health check *)

HealthEnded == op = "idle" /\ outcome.op = "healthy"

\* the acquisition made for the health check ended: healthy returns, False
\* when it raised and True when it returned a result
HealthFollowsAcquisition ==
    (AcquireEnded /\ acq.caller = "healthy") =>
        /\ op' = "idle"
        /\ outcome'.op = "healthy"
        /\ outcome'.kind = "return"
        /\ res' = Ok(PyBool(outcome.kind = "return"))
        /\ outcome.kind \in {"return", "raise"}

\* C38: healthy returns False exactly when the sample acquisition raises
\* (retry exhaustion, degraded status, device or validation error, no device)
\* and True exactly when the acquisition returns a result; it never
\* propagates an exception.
C38_HealthReflectsAcquisition ==
    /\ [][HealthFollowsAcquisition]_vars
    /\ [](HealthEnded =>
              /\ outcome.kind = "return"
              /\ res.exc = "none" /\ res.val.t = "bool"
              /\ res.val = PyBool(FALSE) <=> outcome.exc # "none"
              /\ res.val = PyBool(TRUE) => Len(acq.hist) >= 1 /\ acq.hist[Len(acq.hist)])
    /\ [](outcome.op = "acquire" /\ acq.caller = "healthy" /\ radio.rsa = "None"
              => outcome.exc = "AttributeError")

\* the retries were exhausted and healthy returned False
C38_Witness ==
    /\ HealthEnded
    /\ res.val = PyBool(FALSE)
    /\ outcome.exc = "RuntimeError"
    /\ acq.attempts = DefaultRetries + 1

\* healthy returned True after a capture that was retried
C38_Healthy ==
    /\ HealthEnded
    /\ res.val = PyBool(TRUE)
    /\ acq.attempts = 2

\* healthy returned False on a degraded status
C38_Degraded ==
    /\ HealthEnded
    /\ res.val = PyBool(FALSE)
    /\ outcome.exc = "RSA_Error" /\ outcome.msg = "Input overrange."

====
